---------------------------- MODULE Spec2Model ----------------------------
(***************************************************************************)
(* quickbolt: the pipeline stage operators of channel.go (Send, Filter,    *)
(* Convert, DoEach) and the transactional producers of read.go, as state   *)
(* machines over Go channels, timers and a cancellation context.           *)
(*                                                                         *)
(* A Go channel is a record [buf, closed, closes]; its capacity is cap[c]. *)
(* A capacity of 0 is a rendezvous: a send is possible only while a        *)
(* receiver is parked on the channel, and the parked receiver then takes   *)
(* the value (it cannot time out any more).  A timer is a number: Stopped, *)
(* 0 once it has fired, otherwise the ticks that remain.                   *)
(***************************************************************************)
EXTENDS Integers, Sequences, FiniteSets, TLC

\* ------------------------------------------------------------------ bounds
MaxLen == 2

MaxCap == 1

Timeout == 1

\* Two values suffice: the stages never inspect a value, only the callbacks do.
Val == {1, 2}

Chans == {"c1", "c2", "c3"}

NoChan == "nil"

Stopped == -1

RECURSIVE SeqsUpTo(_)
SeqsUpTo(n) ==
    IF n = 0 THEN {<<>>}
    ELSE LET S == SeqsUpTo(n - 1)
         IN  S \cup {Append(s, v) : s \in {t \in S : Len(t) = n - 1}, v \in Val}

Inputs == SeqsUpTo(MaxLen)

\* ------------------------------------------------------------------- state
VARIABLES
    ch,        \* the channels: [Chans -> [buf, closed, closes]]
    cap,       \* capacity of each channel, fixed by make(chan T, n)
    cancelled, \* ctx.Done() is closed
    fault,     \* the runtime panic raised, "none" while there is none
    feeder,    \* the caller's goroutine writing the stage's input channel
    sink,      \* the caller's goroutine reading the stage's output channel
    flt,       \* the Filter call
    cnv,       \* the Convert call
    snd,       \* a Send call of the caller
    de,        \* the DoEach call
    tasks,     \* the task executions DoEach admitted, in admission order
    prod,      \* the producer call (ValuesAt, KeysAt, EntriesAt, BucketsAt)
    store,     \* the bucket tree the producer reads
    cpt,       \* the Capture or CaptureBytes call
    kv,        \* the caller of Insert, GetValue and Delete: its last two calls
    auto,      \* the caller of InsertValue, and the collection it writes to
    logger     \* the timeoutLog of the calls, and logMutex

vars ==
    <<ch, cap, cancelled, fault, feeder, sink, flt, cnv, snd, de, tasks, prod, store,
      cpt, kv, auto, logger>>

\* What an action of one stage leaves alone.
exceptFlt == <<cnv, snd, de, tasks, prod, store, cpt, kv, auto, logger>>

exceptCnv == <<flt, snd, de, tasks, prod, store, cpt, kv, auto, logger>>

exceptSnd == <<flt, cnv, de, tasks, prod, store, cpt, kv, auto, logger>>

exceptDe == <<flt, cnv, snd, prod, store, cpt, kv, auto, logger>>

exceptProd == <<flt, cnv, snd, de, tasks, cpt, kv, auto, logger>>

exceptCpt == <<flt, cnv, snd, de, tasks, prod, store, kv, auto, logger>>

stages == <<flt, cnv, snd, de, tasks, prod, store, cpt, kv, auto, logger>>

\* ---------------------------------------------------------------- channels
EmptyChan == [buf |-> <<>>, closed |-> FALSE, closes |-> 0]

\* A goroutine blocked in a select whose receive case reads channel c.
RecvParked(c) ==
    \/ sink.on /\ sink.from = c
    \/ flt.pc = "recv" /\ flt.in = c /\ flt.timer # 0 /\ ~cancelled
    \/ cnv.pc = "recv" /\ cnv.in = c /\ cnv.timer # 0 /\ ~cancelled
    \/ de.pc = "recv" /\ de.in = c /\ de.timer # 0 /\ ~cancelled
    \/ cpt.pc = "recv" /\ cpt.buffer = c /\ cpt.timer # 0 /\ ~cancelled

\* A value handed to a parked receiver of an unbuffered channel.
Committed(c) == c \in Chans /\ cap[c] = 0 /\ ch[c].buf # <<>>

HasRoom(c) ==
    IF cap[c] = 0 THEN ch[c].buf = <<>> /\ RecvParked(c)
    ELSE Len(ch[c].buf) < cap[c]

\* The case "c <- v" of a select can proceed (on a closed channel: by panicking).
SendReady(c) == ch[c].closed \/ HasRoom(c)

\* The case "v, ok := <-c" of a select can proceed.
RecvReady(c) == ch[c].buf # <<>> \/ ch[c].closed

RecvOk(c) == ch[c].buf # <<>>

ChSend(c, v) ==
    IF ch[c].closed THEN ch ELSE [ch EXCEPT ![c].buf = Append(@, v)]

FaultSend(c) == IF ch[c].closed THEN "send on closed channel" ELSE fault

ChRecv(c) == IF RecvOk(c) THEN [ch EXCEPT ![c].buf = Tail(@)] ELSE ch

\* close(c); a nil c stands for "no deferred close was registered".
ChClose(c) ==
    IF c = NoChan THEN ch
    ELSE [ch EXCEPT ![c].closed = TRUE, ![c].closes = @ + 1]

FaultClose(c) ==
    IF c # NoChan /\ ch[c].closed THEN "close of closed channel" ELSE fault

\* ------------------------------------------------------------- timeoutLog
\* The calls are given a timeoutLog or nil, all alike; logMutex is free or held
\* by one call; lines are the Writes made to the log, each with the call that
\* made it and whether the Write returned an error.
LoggerOff == [given |-> FALSE, mutex |-> "free", lines |-> <<>>]

\* if timeoutLog != nil
Logs == logger.given

LogLockUnguarded(who) == logger' = [logger EXCEPT !.mutex = who]

\* logMutex.Lock(), which blocks while another call holds the mutex; the call
\* then enters timeoutLog.Write.
LogLock(who) ==
    /\ logger.mutex = "free"
    /\ logger' = [logger EXCEPT !.mutex = who]

\* timeoutLog.Write has returned, with an error or without: its results are
\* dropped; logMutex.Unlock().
LogWritten(who, ok) ==
    logger' = [logger EXCEPT !.mutex = "free",
                             !.lines = Append(@, [who |-> who, ok |-> ok])]

\* ------------------------------------------------------------- environment
FeederOff == [on |-> FALSE, to |-> NoChan, todo |-> <<>>, owner |-> FALSE]

SinkOff == [on |-> FALSE, from |-> NoChan, got |-> <<>>, sawClosed |-> FALSE]

\* The caller's producer: "for _, v := range input { in <- v }".
FeederSend ==
    /\ feeder.on /\ feeder.todo # <<>>
    /\ fault = "none"
    /\ SendReady(feeder.to)
    /\ ch' = ChSend(feeder.to, Head(feeder.todo))
    /\ fault' = FaultSend(feeder.to)
    /\ feeder' = [feeder EXCEPT !.todo = Tail(@)]
    /\ UNCHANGED <<cap, cancelled, sink, stages>>

\* ... followed by close(in), when this goroutine is the one that owns the queue.
FeederClose ==
    /\ feeder.on /\ feeder.todo = <<>> /\ feeder.owner
    /\ fault = "none"
    /\ ch' = ChClose(feeder.to)
    /\ fault' = FaultClose(feeder.to)
    /\ feeder' = [feeder EXCEPT !.on = FALSE]
    /\ UNCHANGED <<cap, cancelled, sink, stages>>

\* The caller's consumer: "for v := range out { ... }".
SinkRecv ==
    /\ sink.on
    /\ fault = "none"
    /\ RecvReady(sink.from)
    /\ ch' = ChRecv(sink.from)
    /\ sink' = IF RecvOk(sink.from)
               THEN [sink EXCEPT !.got = Append(@, Head(ch[sink.from].buf))]
               ELSE [sink EXCEPT !.sawClosed = TRUE, !.on = FALSE]
    /\ UNCHANGED <<cap, cancelled, fault, feeder, stages>>

\* The caller cancels the context; once done it stays done.
Cancel ==
    /\ ~cancelled
    /\ fault = "none"
    /\ cancelled' = TRUE
    /\ UNCHANGED <<ch, cap, fault, feeder, sink, stages>>

TickTimer(t) == IF t > 0 THEN t - 1 ELSE t

\* ------------------------------------------------------------------ Filter
FilterOff ==
    [pc |-> "off", in |-> NoChan, out |-> NoChan, allowNil |-> FALSE, allow |-> {},
     v |-> 0, timer |-> Stopped, ret |-> "none", rcvd |-> <<>>, sent |-> <<>>]

FilterReturnOpen(err) ==
    /\ flt' = [flt EXCEPT !.pc = "done", !.ret = err, !.timer = Stopped]
    /\ UNCHANGED <<ch, fault>>

\* return err, with the deferred close(out) of channel.go:169.
FilterReturn(err) ==
    /\ flt' = [flt EXCEPT !.pc = "done", !.ret = err, !.timer = Stopped]
    /\ ch' = ChClose(flt.out)
    /\ fault' = FaultClose(flt.out)

\* Entry: the deferred close, the nil checks, the first timer.
FilterCall ==
    /\ flt.pc = "call"
    /\ fault = "none"
    /\ IF flt.in = NoChan \/ flt.out = NoChan \/ flt.allowNil
       THEN FilterReturn("nilarg")
       ELSE /\ flt' = [flt EXCEPT !.pc = "recv", !.timer = Timeout]
            /\ UNCHANGED <<ch, fault>>
    /\ UNCHANGED <<cap, cancelled, feeder, sink, exceptFlt>>

\* case <-ctx.Done()
FilterCancelled ==
    /\ flt.pc = "recv"
    /\ fault = "none"
    /\ cancelled
    /\ ~Committed(flt.in)
    /\ FilterReturn("cancelled")
    /\ UNCHANGED <<cap, cancelled, feeder, sink, exceptFlt>>

AllowsAll(v) == TRUE

\* allow(v)
Allows(v) == v \in flt.allow

\* case v, ok := <-in
FilterRecv ==
    /\ flt.pc = "recv"
    /\ fault = "none"
    /\ RecvReady(flt.in)
    /\ IF ~RecvOk(flt.in)
       THEN FilterReturn("nil")
       ELSE LET v == Head(ch[flt.in].buf)
            IN  /\ ch' = ChRecv(flt.in)
                /\ flt' = [flt EXCEPT !.rcvd = Append(@, v),
                                      !.v = v,
                                      !.timer = Timeout,
                                      !.pc = IF Allows(v) THEN "send" ELSE "recv"]
                /\ UNCHANGED fault
    /\ UNCHANGED <<cap, cancelled, feeder, sink, exceptFlt>>

\* case <-timer.C of the receive
FilterRecvTimeout ==
    /\ flt.pc = "recv"
    /\ fault = "none"
    /\ flt.timer = 0
    /\ ~Committed(flt.in)
    /\ IF Logs
       THEN flt' = [flt EXCEPT !.pc = "lock"] /\ UNCHANGED <<ch, fault>>
       ELSE FilterReturn("timeout")
    /\ UNCHANGED <<cap, cancelled, feeder, sink, exceptFlt>>

\* case out <- v
FilterSend ==
    /\ flt.pc = "send"
    /\ fault = "none"
    /\ SendReady(flt.out)
    /\ ch' = ChSend(flt.out, flt.v)
    /\ fault' = FaultSend(flt.out)
    /\ flt' = [flt EXCEPT !.sent = Append(@, flt.v), !.pc = "recv", !.timer = Timeout]
    /\ UNCHANGED <<cap, cancelled, feeder, sink, exceptFlt>>

\* case <-timer.C of the send
FilterSendTimeout ==
    /\ flt.pc = "send"
    /\ fault = "none"
    /\ flt.timer = 0
    /\ IF Logs
       THEN flt' = [flt EXCEPT !.pc = "lock"] /\ UNCHANGED <<ch, fault>>
       ELSE FilterReturn("timeout")
    /\ UNCHANGED <<cap, cancelled, feeder, sink, exceptFlt>>

Filter ==
    \/ FilterCall
    \/ FilterCancelled
    \/ FilterRecv
    \/ FilterRecvTimeout
    \/ FilterSend
    \/ FilterSendTimeout

\* -------------------------------------------------------------------- Send
SendOff ==
    [pc |-> "off", to |-> NoChan, v |-> 0, timer |-> Stopped, ret |-> "none", enq |-> 0]

SendCasesNoTimer(c, t, done) ==
    {o \in {"cancelled", "sent"} :
        \/ o = "cancelled" /\ done
        \/ o = "sent" /\ SendReady(c)}

\* The cases of Send's select (channel.go:408) that can proceed on channel c
\* with the call's timer t and a context that is done or not: whichever is
\* ready may win.
SendCases(c, t, done) ==
    {o \in {"cancelled", "sent", "timeout"} :
        \/ o = "cancelled" /\ done
        \/ o = "sent" /\ SendReady(c)
        \/ o = "timeout" /\ t = 0}

SendChAlways(c, v, o) == ChSend(c, v)

\* What the case does to the channel, and what Send returns.
SendCh(c, v, o) == IF o = "sent" THEN ChSend(c, v) ELSE ch

SendFault(c, o) == IF o = "sent" THEN FaultSend(c) ELSE fault

SendErr(o) == IF o = "sent" THEN "nil" ELSE o

\* Entry of a call by the caller itself: the nil check, then the timer.
SendCall ==
    /\ snd.pc = "call"
    /\ fault = "none"
    /\ snd' = IF snd.to = NoChan
              THEN [snd EXCEPT !.pc = "done", !.ret = "nilarg"]
              ELSE [snd EXCEPT !.pc = "select", !.timer = Timeout]
    /\ UNCHANGED <<ch, cap, cancelled, fault, feeder, sink, exceptSnd>>

SendSelect ==
    /\ snd.pc = "select"
    /\ fault = "none"
    /\ \E o \in SendCases(snd.to, snd.timer, cancelled) :
         IF o = "timeout" /\ Logs
         THEN snd' = [snd EXCEPT !.pc = "lock"] /\ UNCHANGED <<ch, fault>>
         ELSE /\ ch' = SendCh(snd.to, snd.v, o)
              /\ fault' = SendFault(snd.to, o)
              /\ snd' = [snd EXCEPT !.pc = "done", !.ret = SendErr(o),
                                    !.timer = Stopped,
                                    !.enq = IF o = "sent" THEN @ + 1 ELSE @]
    /\ UNCHANGED <<cap, cancelled, feeder, sink, exceptSnd>>

Send == SendCall \/ SendSelect

\* ----------------------------------------------------------------- Convert
\* The transform's failure, for a transform in [Val -> Val \cup {ConvErr}].
ConvErr == 0

ConvertOff ==
    [pc |-> "off", in |-> NoChan, out |-> NoChan, convertNil |-> FALSE,
     convert |-> [v \in Val |-> v], v |-> 0, new |-> 0, timer |-> Stopped,
     ret |-> "none", rcvd |-> <<>>, sent |-> <<>>, failed |-> 0]

\* return err, with the deferred close(out) of channel.go:242.
ConvertReturn(err) ==
    /\ cnv' = [cnv EXCEPT !.pc = "done", !.ret = err, !.timer = Stopped]
    /\ ch' = ChClose(cnv.out)
    /\ fault' = FaultClose(cnv.out)

ConvertCall ==
    /\ cnv.pc = "call"
    /\ fault = "none"
    /\ IF cnv.in = NoChan \/ cnv.out = NoChan \/ cnv.convertNil
       THEN ConvertReturn("nilarg")
       ELSE /\ cnv' = [cnv EXCEPT !.pc = "recv", !.timer = Timeout]
            /\ UNCHANGED <<ch, fault>>
    /\ UNCHANGED <<cap, cancelled, feeder, sink, exceptCnv>>

\* case <-ctx.Done()
ConvertCancelled ==
    /\ cnv.pc = "recv"
    /\ fault = "none"
    /\ cancelled
    /\ ~Committed(cnv.in)
    /\ ConvertReturn("cancelled")
    /\ UNCHANGED <<cap, cancelled, feeder, sink, exceptCnv>>

ConvertSkips(v) ==
    /\ cnv' = [cnv EXCEPT !.rcvd = Append(@, v), !.v = v, !.timer = Timeout]
    /\ ch' = ChRecv(cnv.in)
    /\ UNCHANGED fault

\* convert(v) returned an error: return it wrapped, with the deferred close(out)
ConvertFails(v) ==
    /\ cnv' = [cnv EXCEPT !.pc = "done", !.ret = "convert", !.v = v, !.failed = v,
                          !.timer = Stopped, !.rcvd = Append(@, v)]
    /\ ch' = [ChRecv(cnv.in) EXCEPT ![cnv.out].closed = TRUE, ![cnv.out].closes = @ + 1]
    /\ fault' = FaultClose(cnv.out)

\* case v, ok := <-in, with the call of convert and the entry of Send
ConvertRecv ==
    /\ cnv.pc = "recv"
    /\ fault = "none"
    /\ RecvReady(cnv.in)
    /\ IF ~RecvOk(cnv.in)
       THEN ConvertReturn("nil")
       ELSE LET v == Head(ch[cnv.in].buf)
                new == cnv.convert[v]
            IN  IF new = ConvErr
                THEN ConvertFails(v)
                ELSE /\ ch' = ChRecv(cnv.in)
                     /\ cnv' = [cnv EXCEPT !.rcvd = Append(@, v), !.v = v, !.new = new,
                                           !.timer = Timeout, !.pc = "send"]
                     /\ UNCHANGED fault
    /\ UNCHANGED <<cap, cancelled, feeder, sink, exceptCnv>>

\* case <-timer.C of the receive
ConvertRecvTimeout ==
    /\ cnv.pc = "recv"
    /\ fault = "none"
    /\ cnv.timer = 0
    /\ ~Committed(cnv.in)
    /\ IF Logs
       THEN cnv' = [cnv EXCEPT !.pc = "lock"] /\ UNCHANGED <<ch, fault>>
       ELSE ConvertReturn("timeout")
    /\ UNCHANGED <<cap, cancelled, feeder, sink, exceptCnv>>

\* err = Send(out, new, ctx, timeoutLog, timeout...)
ConvertSend ==
    /\ cnv.pc = "send"
    /\ fault = "none"
    /\ \E o \in SendCases(cnv.out, cnv.timer, cancelled) :
         IF o = "sent"
         THEN /\ ch' = SendCh(cnv.out, cnv.new, o)
              /\ fault' = SendFault(cnv.out, o)
              /\ cnv' = [cnv EXCEPT !.sent = Append(@, cnv.new), !.pc = "recv",
                                    !.timer = Timeout]
         ELSE IF o = "timeout" /\ Logs
         THEN cnv' = [cnv EXCEPT !.pc = "lock"] /\ UNCHANGED <<ch, fault>>
         ELSE ConvertReturn(SendErr(o))
    /\ UNCHANGED <<cap, cancelled, feeder, sink, exceptCnv>>

Convert ==
    \/ ConvertCall
    \/ ConvertCancelled
    \/ ConvertRecv
    \/ ConvertRecvTimeout
    \/ ConvertSend

\* ------------------------------------------------------------------ DoEach
DoEachOff ==
    [pc |-> "off", in |-> NoChan, out |-> NoChan, doNil |-> FALSE, workLimit |-> 0,
     emits |-> {}, fails |-> {}, v |-> 0, timer |-> Stopped, ret |-> "none",
     rcvd |-> <<>>, sem |-> 0, egErr |-> 0, emitted |-> <<>>]

\* The task executions that have not returned yet.
Running == {i \in DOMAIN tasks : tasks[i].pc # "done"}

\* return err, with the deferred close(out) of channel.go:313.
DoEachReturn(err) ==
    /\ de' = [de EXCEPT !.pc = "done", !.ret = err, !.timer = Stopped]
    /\ ch' = ChClose(de.out)
    /\ fault' = FaultClose(de.out)

DoEachCallUncheckedDo ==
    /\ de.pc = "call"
    /\ fault = "none"
    /\ IF de.in = NoChan \/ de.out = NoChan
       THEN DoEachReturn("nilarg")
       ELSE /\ de' = [de EXCEPT !.pc = "recv", !.timer = Timeout]
            /\ UNCHANGED <<ch, fault>>
    /\ UNCHANGED <<cap, cancelled, feeder, sink, tasks, exceptDe>>

\* Entry: the deferred close, eg.SetLimit, the nil checks, the first timer.
DoEachCall ==
    /\ de.pc = "call"
    /\ fault = "none"
    /\ IF de.in = NoChan \/ de.doNil \/ de.out = NoChan
       THEN DoEachReturn("nilarg")
       ELSE /\ de' = [de EXCEPT !.pc = "recv", !.timer = Timeout]
            /\ UNCHANGED <<ch, fault>>
    /\ UNCHANGED <<cap, cancelled, feeder, sink, tasks, exceptDe>>

\* case <-ctx.Done()
DoEachCancelled ==
    /\ de.pc = "recv"
    /\ fault = "none"
    /\ cancelled
    /\ ~Committed(de.in)
    /\ DoEachReturn("cancelled")
    /\ UNCHANGED <<cap, cancelled, feeder, sink, tasks, exceptDe>>

\* case v, ok := <-in: on closure go on to eg.Wait(), else to goroutineSpawn
DoEachRecv ==
    /\ de.pc = "recv"
    /\ fault = "none"
    /\ RecvReady(de.in)
    /\ ch' = ChRecv(de.in)
    /\ de' = IF RecvOk(de.in)
             THEN [de EXCEPT !.pc = "spawn", !.v = Head(ch[de.in].buf),
                             !.rcvd = Append(@, Head(ch[de.in].buf)), !.timer = Stopped]
             ELSE [de EXCEPT !.pc = "wait", !.timer = Stopped]
    /\ UNCHANGED <<cap, cancelled, fault, feeder, sink, tasks, exceptDe>>

\* case <-timer.C of the receive
DoEachRecvTimeout ==
    /\ de.pc = "recv"
    /\ fault = "none"
    /\ de.timer = 0
    /\ ~Committed(de.in)
    /\ IF Logs
       THEN de' = [de EXCEPT !.pc = "lock"] /\ UNCHANGED <<ch, fault>>
       ELSE DoEachReturn("timeout")
    /\ UNCHANGED <<cap, cancelled, feeder, sink, tasks, exceptDe>>

\* goroutineSpawn: each iteration starts with timer := time.NewTimer(timeout[0])
DoEachSpawnTimer ==
    /\ de.pc = "spawn"
    /\ fault = "none"
    /\ de' = [de EXCEPT !.pc = "admit", !.timer = Timeout]
    /\ UNCHANGED <<ch, cap, cancelled, fault, feeder, sink, tasks, exceptDe>>

\* The goroutine TryGo starts runs do(v, out, db): up to the select of its Send
\* when the task emits its value, else up to its return.
NewTask(v) ==
    IF v \in de.emits
    THEN [v |-> v, pc |-> "send", timer |-> Timeout, err |-> "none"]
    ELSE [v |-> v, pc |-> "run", timer |-> Stopped, err |-> "none"]

TryGoUnlimited == TRUE

TryGoOneOver == de.workLimit < 1 \/ de.sem <= de.workLimit

\* errgroup's TryGo: a slot is free (no limit was set, or the semaphore has room).
TryGo == de.workLimit < 1 \/ de.sem < de.workLimit

\* The select of goroutineSpawn: the timer's case if the new timer has fired,
\* else the default case with eg.TryGo.
DoEachAdmit ==
    /\ de.pc = "admit"
    /\ fault = "none"
    /\ IF de.timer = 0
       THEN /\ IF Logs
               THEN de' = [de EXCEPT !.pc = "lock"] /\ UNCHANGED <<ch, fault>>
               ELSE DoEachReturn("timeout")
            /\ UNCHANGED tasks
       ELSE /\ IF TryGo
               THEN /\ tasks' = Append(tasks, NewTask(de.v))
                    /\ de' = [de EXCEPT !.pc = "recv", !.sem = @ + 1, !.timer = Timeout]
               ELSE /\ de' = [de EXCEPT !.pc = "spawn"]
                    /\ UNCHANGED tasks
            /\ UNCHANGED <<ch, fault>>
    /\ UNCHANGED <<cap, cancelled, feeder, sink, exceptDe>>

DoEachWaitEarly ==
    /\ de.pc = "wait"
    /\ fault = "none"
    /\ DoEachReturn(IF de.egErr = 0 THEN "nil" ELSE "task")
    /\ UNCHANGED <<cap, cancelled, feeder, sink, tasks, exceptDe>>

\* return eg.Wait(): blocks until every admitted task has returned
DoEachWait ==
    /\ de.pc = "wait"
    /\ fault = "none"
    /\ Running = {}
    /\ DoEachReturn(IF de.egErr = 0 THEN "nil" ELSE "task")
    /\ UNCHANGED <<cap, cancelled, feeder, sink, tasks, exceptDe>>

EgDoneKeepsLast(i, err) ==
    [de EXCEPT !.sem = @ - 1,
               !.egErr = IF err # "nil" THEN i ELSE @]

\* errgroup's done() and errOnce: the slot is released, the first error is kept.
EgDone(i, err) ==
    [de EXCEPT !.sem = @ - 1,
               !.egErr = IF @ = 0 /\ err # "nil" THEN i ELSE @]

\* The task's own result once it has done its work.
TaskResult(i) == IF tasks[i].v \in de.fails THEN "failed" ELSE "nil"

\* the return of a task that emits nothing
TaskRun(i) ==
    /\ tasks[i].pc = "run"
    /\ fault = "none"
    /\ tasks' = [tasks EXCEPT ![i].pc = "done", ![i].err = TaskResult(i)]
    /\ de' = EgDone(i, TaskResult(i))
    /\ UNCHANGED <<ch, cap, cancelled, fault, feeder, sink, exceptDe>>

\* the task's quickbolt.Send(buffer, v, nil, os.Stdout) and its return: the task
\* is not handed DoEach's context, its Send runs under context.Background()
TaskSend(i) ==
    /\ tasks[i].pc = "send"
    /\ fault = "none"
    /\ \E o \in SendCases(de.out, tasks[i].timer, FALSE) :
         LET err == IF o = "sent" THEN TaskResult(i) ELSE SendErr(o)
             done == EgDone(i, err)
         IN  IF o = "timeout" /\ Logs
             THEN /\ tasks' = [tasks EXCEPT ![i].pc = "lock"]
                  /\ UNCHANGED <<ch, fault, de>>
             ELSE /\ ch' = SendCh(de.out, tasks[i].v, o)
                  /\ fault' = SendFault(de.out, o)
                  /\ tasks' = [tasks EXCEPT ![i].pc = "done", ![i].err = err,
                                            ![i].timer = Stopped]
                  /\ de' = IF o = "sent"
                           THEN [done EXCEPT !.emitted = Append(@, tasks[i].v)]
                           ELSE done
    /\ UNCHANGED <<cap, cancelled, feeder, sink, exceptDe>>

Task == \E i \in DOMAIN tasks : TaskRun(i) \/ TaskSend(i)

DoEach ==
    \/ DoEachCall
    \/ DoEachCancelled
    \/ DoEachRecv
    \/ DoEachRecvTimeout
    \/ DoEachSpawnTimer
    \/ DoEachAdmit
    \/ DoEachWait

\* ---------------------------------------------------------------- producer
\* The store as seen from one path of n segments: whether the root bucket
\* exists, how many leading segments of the path exist below it, and the
\* bucket at the end of the path: a function from its keys to a payload, or to
\* NilValue for a key that names a child bucket.
MaxKey == 2

MaxPath == 1

Key == 1..MaxKey

NilValue == 0

Leaves == UNION {[K -> Val \cup {NilValue}] : K \in SUBSET Key}

EmptyLeaf == [k \in {} |-> NilValue]

\* The path a caller hands to a DB operation, as an interface value: its dynamic
\* type and its elements.  A Go string is [str |-> its bytes], a byte slice is
\* the sequence of its bytes.
MaxSegs == 2

Segs == {<<97>>, <<98>>}

GoStrings == {[str |-> b] : b \in Segs}

SlicesOf(S) == UNION {[1..n -> S] : n \in 0..MaxSegs}

Paths ==
    {[type |-> "nil", segs |-> <<>>]}
    \cup {[type |-> "[]string", segs |-> q] : q \in SlicesOf(GoStrings)}
    \cup {[type |-> "[][]byte", segs |-> q] : q \in SlicesOf(Segs)}
    \cup {[type |-> "string", segs |-> <<g>>] : g \in GoStrings}
    \cup {[type |-> "[]byte", segs |-> <<b>>] : b \in Segs}
    \cup {[type |-> "[]int", segs |-> q] : q \in {<<1>>, <<1, 2>>}}

\* The path of a caller whose specification follows only whether the path
\* resolves and how many segments it has.
NoPath == [type |-> "none", segs |-> <<>>]

ResolveBucketPathCoerces(p) ==
    CASE p.type \in {"[]string", "string"} ->
           [ok |-> TRUE, resolved |-> [i \in DOMAIN p.segs |-> p.segs[i].str]]
      [] p.type = "[][]byte" -> [ok |-> TRUE, resolved |-> p.segs]
      [] OTHER -> [ok |-> FALSE, resolved |-> <<>>]

\* for _, s := range path { resolved = append(resolved, []byte(s)) }
RECURSIVE AppendBytes(_, _)
AppendBytes(resolved, path) ==
    IF path = <<>> THEN resolved
    ELSE AppendBytes(Append(resolved, Head(path).str), Tail(path))

\* resolveBucketPath(p): the segments as byte slices, or an error.
ResolveBucketPath(p) ==
    IF p.type = "nil" THEN [ok |-> FALSE, resolved |-> <<>>]
    ELSE CASE p.type = "[]string" ->
                [ok |-> TRUE, resolved |-> AppendBytes(<<>>, p.segs)]
           [] p.type = "[][]byte" -> [ok |-> TRUE, resolved |-> <<>> \o p.segs]
           [] OTHER -> [ok |-> FALSE, resolved |-> <<>>]

ProducerOff ==
    [pc |-> "off", variant |-> "keys", dbNil |-> FALSE, path |-> NoPath,
     pathOK |-> TRUE, n |-> 0,
     mustExist |-> FALSE, out |-> NoChan, cur |-> <<>>, timer |-> Stopped,
     ret |-> "none", tx |-> FALSE, pushed |-> <<>>]

StoreOff == [root |-> FALSE, depth |-> 0, leaf |-> EmptyLeaf]

\* The keys of a bucket in the order of its cursor: ascending.
RECURSIVE Ascending(_)
Ascending(K) ==
    IF K = {} THEN <<>>
    ELSE LET k == CHOOSE x \in K : \A y \in K : x <= y
         IN  <<k>> \o Ascending(K \ {k})

\* getBucket(tx, path, mustExist): "ok", "nil" (a bucket is missing and need not
\* exist), "err" (it is missing and must exist), or "panic" for path[0] of an
\* empty path.
GetBucket(n, mustExist) ==
    IF ~store.root
    THEN IF mustExist THEN (IF n = 0 THEN "panic" ELSE "err") ELSE "nil"
    ELSE IF store.depth < n
         THEN IF mustExist THEN "err" ELSE "nil"
         ELSE "ok"

\* keysAt, entriesAt and bucketsAt start with "defer close(buffer)"; valuesAt does not.
DefersClose(variant) == variant # "values"

Deferred == IF DefersClose(prod.variant) THEN prod.out ELSE NoChan

\* The entry at the cursor is passed over ("continue").
Skips(variant, v) ==
    CASE variant = "values" -> FALSE
      [] variant = "buckets" -> v # NilValue
      [] OTHER -> v = NilValue

\* What the variant sends for the entry (k, v).
Item(variant, k, v) ==
    CASE variant = "entries" -> <<k, v>>
      [] OTHER -> <<k>>

\* The text of the error holds withCallerInfo(..., 2), the file and line of the
\* wrapper's caller: only the wrapper's path error is built with it; the errors
\* that come out of valuesAt, keysAt, entriesAt and bucketsAt are not.
NamesCaller(err) == err = "path"

ProducerReturnKeepsSnapshot(err) ==
    /\ prod' = [prod EXCEPT !.pc = "done", !.ret = err, !.timer = Stopped]
    /\ ch' = ChClose(Deferred)
    /\ fault' = FaultClose(Deferred)

\* return err out of db.View and out of the producer: the snapshot is released
\* and the deferred close, if any, runs.
ProducerReturn(err) ==
    /\ prod' = [prod EXCEPT !.pc = "done", !.ret = err, !.timer = Stopped, !.tx = FALSE]
    /\ ch' = ChClose(Deferred)
    /\ fault' = FaultClose(Deferred)

\* Only valuesAt starts with "if db == nil"; the others go straight to db.View.
ChecksDb(variant) == variant = "values"

\* dbWrapper.ValuesAt/KeysAt/EntriesAt/BucketsAt: resolveBucketPath, then the
\* producer up to its cursor: the nil check if it has one, db.View (which
\* dereferences db) and getBucket.
ProducerCall ==
    /\ prod.pc = "call"
    /\ fault = "none"
    /\ IF ~prod.pathOK
       THEN /\ prod' = [prod EXCEPT !.pc = "done", !.ret = "path"]
            /\ UNCHANGED <<ch, fault>>
       ELSE IF prod.dbNil
       THEN IF ChecksDb(prod.variant)
            THEN /\ prod' = [prod EXCEPT !.pc = "done", !.ret = "nildb"]
                 /\ UNCHANGED <<ch, fault>>
            ELSE /\ prod' = [prod EXCEPT !.pc = "panicked"]
                 /\ ch' = ChClose(Deferred)
                 /\ fault' = "nil pointer dereference"
       ELSE LET b == GetBucket(prod.n, prod.mustExist)
            IN  CASE b = "ok" ->
                       /\ prod' = [prod EXCEPT !.pc = "scan", !.tx = TRUE,
                                               !.cur = Ascending(DOMAIN store.leaf)]
                       /\ UNCHANGED <<ch, fault>>
                  [] b = "nil" -> ProducerReturn("nil")
                  [] b = "err" -> ProducerReturn("access")
                  [] OTHER ->
                       /\ prod' = [prod EXCEPT !.pc = "panicked"]
                       /\ ch' = ChClose(Deferred)
                       /\ fault' = "index out of range"
    /\ UNCHANGED <<cap, cancelled, feeder, sink, store, exceptProd>>

\* for k, v := c.First(); k != nil; k, v = c.Next()
ProducerNext ==
    /\ prod.pc = "scan"
    /\ fault = "none"
    /\ IF prod.cur = <<>>
       THEN ProducerReturn("nil")
       ELSE /\ prod' = IF Skips(prod.variant, store.leaf[Head(prod.cur)])
                       THEN [prod EXCEPT !.cur = Tail(@)]
                       ELSE [prod EXCEPT !.pc = "send", !.timer = Timeout]
            /\ UNCHANGED <<ch, fault>>
    /\ UNCHANGED <<cap, cancelled, feeder, sink, store, exceptProd>>

\* case buffer <- k
ProducerSend ==
    /\ prod.pc = "send"
    /\ fault = "none"
    /\ SendReady(prod.out)
    /\ LET k == Head(prod.cur)
           item == Item(prod.variant, k, store.leaf[k])
       IN  /\ ch' = ChSend(prod.out, item)
           /\ fault' = FaultSend(prod.out)
           /\ prod' = [prod EXCEPT !.pc = "scan", !.timer = Stopped, !.cur = Tail(@),
                                   !.pushed = Append(@, item)]
    /\ UNCHANGED <<cap, cancelled, feeder, sink, store, exceptProd>>

\* case <-timer.C
ProducerSendTimeout ==
    /\ prod.pc = "send"
    /\ fault = "none"
    /\ prod.timer = 0
    /\ ProducerReturn("timeout")
    /\ UNCHANGED <<cap, cancelled, feeder, sink, store, exceptProd>>

Producer ==
    \/ ProducerCall
    \/ ProducerNext
    \/ ProducerSend
    \/ ProducerSendTimeout

\* ----------------------------------------------------- Capture, CaptureBytes
\* The destination slice types of CaptureBytes: *[]string and *[][]byte take
\* every record, *[]int and *[]float32 ("number") and *[]float64 parse it, any
\* other type is refused.  Capture[T] appends the value as it is.
Slices == {"bytes", "number", "float64", "other"}

\* The records whose number, if they are one, a float32 holds exactly (as 1.5);
\* the number of any other record (as 0.1) lies between two float32 values.
Exact32 == {1}

CaptureOff ==
    [pc |-> "off", bytes |-> FALSE, buffer |-> NoChan, intoNil |-> FALSE,
     slice |-> "bytes", parses |-> {}, mut |-> "nil", first |-> <<>>, into |-> <<>>,
     timer |-> Stopped, ret |-> "none", rcvd |-> <<>>]

\* The element the switch of CaptureBytes appends for the record v: its text,
\* its bytes or its number; for a *[]float64, the f of
\* strconv.ParseFloat(string(v), 32), the float32 nearest to its number.
Element(slice, v) ==
    IF slice = "float64" /\ v \notin Exact32 THEN <<slice, v, "float32">>
    ELSE <<slice, v>>

\* strconv.Atoi / strconv.ParseFloat of the record fails.
ParseFails(v) ==
    cpt.bytes /\ cpt.slice \in {"number", "float64"} /\ v \notin cpt.parses

\* The default case of the type switch.
Unsupported == cpt.bytes /\ cpt.slice = "other"

\* mut.Lock() when a mutex was given.
Locked == IF cpt.mut = "nil" THEN "nil" ELSE "locked"

\* Entry: the nil checks (the channel; for CaptureBytes also the slice), the
\* first timer.
CaptureCall ==
    /\ cpt.pc = "call"
    /\ fault = "none"
    /\ cpt' = IF cpt.buffer = NoChan \/ (cpt.bytes /\ cpt.intoNil)
              THEN [cpt EXCEPT !.pc = "done", !.ret = "nilarg"]
              ELSE [cpt EXCEPT !.pc = "recv", !.timer = Timeout]
    /\ UNCHANGED <<ch, cap, cancelled, fault, feeder, sink, exceptCpt>>

\* case <-ctx.Done()
CaptureCancelled ==
    /\ cpt.pc = "recv"
    /\ fault = "none"
    /\ cancelled
    /\ ~Committed(cpt.buffer)
    /\ cpt' = [cpt EXCEPT !.pc = "done", !.ret = "cancelled", !.timer = Stopped]
    /\ UNCHANGED <<ch, cap, cancelled, fault, feeder, sink, exceptCpt>>

CaptureAppendsTwice(v) ==
    [cpt EXCEPT !.rcvd = Append(@, v), !.timer = Timeout,
                !.into = @ \o <<(IF cpt.bytes THEN Element(cpt.slice, v) ELSE v),
                                (IF cpt.bytes THEN Element(cpt.slice, v) ELSE v)>>]

\* The body of "case v, ok := <-buffer" for a received v: lock, append (or
\* return from inside the switch, the mutex still locked), unlock.
CaptureAppend(v) ==
    IF Unsupported
    THEN [cpt EXCEPT !.rcvd = Append(@, v), !.pc = "done", !.ret = "unsupported",
                     !.timer = Stopped, !.mut = Locked]
    ELSE IF ParseFails(v)
    THEN [cpt EXCEPT !.rcvd = Append(@, v), !.pc = "done", !.ret = "parse",
                     !.timer = Stopped, !.mut = Locked]
    ELSE IF cpt.intoNil
    THEN [cpt EXCEPT !.rcvd = Append(@, v), !.pc = "panicked", !.timer = Stopped,
                     !.mut = Locked]
    ELSE [cpt EXCEPT !.rcvd = Append(@, v), !.timer = Timeout,
                     !.into = Append(@, IF cpt.bytes THEN Element(cpt.slice, v) ELSE v)]

\* case v, ok := <-buffer
CaptureRecv ==
    /\ cpt.pc = "recv"
    /\ fault = "none"
    /\ RecvReady(cpt.buffer)
    /\ ch' = ChRecv(cpt.buffer)
    /\ IF ~RecvOk(cpt.buffer)
       THEN /\ cpt' = [cpt EXCEPT !.pc = "done", !.ret = "nil", !.timer = Stopped]
            /\ UNCHANGED fault
       ELSE /\ cpt' = CaptureAppend(Head(ch[cpt.buffer].buf))
            /\ fault' = IF cpt'.pc = "panicked" THEN "nil pointer dereference" ELSE fault
    /\ UNCHANGED <<cap, cancelled, feeder, sink, exceptCpt>>

\* case <-timer.C
CaptureRecvTimeout ==
    /\ cpt.pc = "recv"
    /\ fault = "none"
    /\ cpt.timer = 0
    /\ ~Committed(cpt.buffer)
    /\ cpt' = IF Logs THEN [cpt EXCEPT !.pc = "lock"]
              ELSE [cpt EXCEPT !.pc = "done", !.ret = "timeout", !.timer = Stopped]
    /\ UNCHANGED <<ch, cap, cancelled, fault, feeder, sink, exceptCpt>>

Capture ==
    \/ CaptureCall
    \/ CaptureCancelled
    \/ CaptureRecv
    \/ CaptureRecvTimeout

\* ------------------------------------------------ Insert, GetValue, Delete
\* The caller uses one path of kv.n segments, well-typed or not, for its calls;
\* kv.last is its last call with what it returned, kv.prev the call before.
\* The store is seen from that path, as for the producers.
EmptyKey == 0

Keys0 == Key \cup {EmptyKey}

NoCall == [op |-> "none", k |-> EmptyKey, v |-> NilValue, m |-> FALSE,
           add |-> "none", err |-> "nil", got |-> NilValue]

KvOff ==
    [on |-> FALSE, dbNil |-> FALSE, path |-> NoPath, pathOK |-> TRUE, n |-> 0,
     prev |-> NoCall, last |-> NoCall]

\* bbolt's Bucket.Get: nil for a key that is absent or names a child bucket.
Get(bkt, k) == IF k \in DOMAIN bkt THEN bkt[k] ELSE NilValue

\* bbolt's Bucket.Put refuses an empty key and a key that names a child bucket.
PutFails(bkt, k) == k = EmptyKey \/ (k \in DOMAIN bkt /\ bkt[k] = NilValue)

PutNothing(bkt, k, v) == bkt

Put(bkt, k, v) == [x \in DOMAIN bkt \cup {k} |-> IF x = k THEN v ELSE bkt[x]]

\* bbolt's Bucket.Delete refuses a key that names a child bucket.
DeleteFails(bkt, k) == k \in DOMAIN bkt /\ bkt[k] = NilValue

Remove(bkt, k) == [x \in DOMAIN bkt \ {k} |-> bkt[x]]

\* getCreateBucket(tx, path): the root and every bucket of the path exist
\* afterwards; the bucket at the end keeps what it held.
GetCreateBucket(n) ==
    [root |-> TRUE, depth |-> n,
     leaf |-> IF store.root /\ store.depth = n THEN store.leaf ELSE EmptyLeaf]

Called(c) == kv' = [kv EXCEPT !.prev = kv.last, !.last = c]

\* The call gets past resolveBucketPath with a nil *bbolt.DB.
NilDb == kv.pathOK /\ kv.dbNil

\* db.Batch, or db.View, through the nil pointer: the caller's goroutine panics.
NilDereference == fault' = "nil pointer dereference" /\ UNCHANGED kv

\* dbWrapper.Insert and insert: one transaction, rolled back if Put fails.
Insert ==
    /\ kv.on
    /\ fault = "none"
    /\ \E k \in Keys0, v \in Val :
         LET s == GetCreateBucket(kv.n)
             err == IF ~kv.pathOK THEN "path"
                    ELSE IF PutFails(s.leaf, k) THEN "write" ELSE "nil"
         IN  IF NilDb
             THEN NilDereference /\ UNCHANGED store
             ELSE /\ store' = IF err = "nil" THEN [s EXCEPT !.leaf = Put(s.leaf, k, v)]
                              ELSE store
                  /\ Called([NoCall EXCEPT !.op = "insert", !.k = k, !.v = v,
                                           !.err = err])
                  /\ UNCHANGED fault
    /\ UNCHANGED <<ch, cap, cancelled, feeder, sink, flt, cnv, snd, de, tasks,
                   prod, cpt, auto, logger>>

\* The outcome of getBucket for the caller's path, "path" if it did not resolve
\* and "nildb" if the function refuses a nil db before it opens the snapshot.
Navigate(m, checksDb) ==
    IF ~kv.pathOK THEN "path"
    ELSE IF kv.dbNil /\ checksDb THEN "nildb"
    ELSE GetBucket(kv.n, m)

\* The error of a read that got b from Navigate and found nothing (or something).
ReadErr(b, found, m) ==
    CASE b \in {"path", "nildb"} -> b
      [] b = "err" -> "access"
      [] b = "ok" /\ ~found /\ m -> "locate"
      [] OTHER -> "nil"

\* dbWrapper.GetValue and getValue: a read in its own snapshot.
GetValue ==
    /\ kv.on
    /\ fault = "none"
    /\ \E k \in Keys0, m \in BOOLEAN :
         LET b == Navigate(m, TRUE)
             value == IF b = "ok" THEN Get(store.leaf, k) ELSE NilValue
             err == ReadErr(b, value # NilValue, m)
         IN  IF b = "panic"
             THEN fault' = "index out of range" /\ UNCHANGED kv
             ELSE /\ Called([NoCall EXCEPT !.op = "get", !.k = k, !.m = m, !.err = err,
                                           !.got = IF err = "nil" THEN value
                                                   ELSE NilValue])
                  /\ UNCHANGED fault
    /\ UNCHANGED <<ch, cap, cancelled, feeder, sink, flt, cnv, snd, de, tasks,
                   prod, store, cpt, auto, logger>>

\* The first key of the bucket, in cursor order, that is paired with value.
FirstKeyOf(bkt, value) ==
    LET K == {k \in DOMAIN bkt : bkt[k] = value}
    IN  IF K = {} THEN EmptyKey ELSE Head(Ascending(K))

\* dbWrapper.GetKey and getKey: a scan for the value in its own snapshot.
GetKey ==
    /\ kv.on
    /\ fault = "none"
    /\ \E v \in Val, m \in BOOLEAN :
         LET b == Navigate(m, TRUE)
             key == IF b = "ok" THEN FirstKeyOf(store.leaf, v) ELSE EmptyKey
             err == ReadErr(b, key # EmptyKey, m)
         IN  IF b = "panic"
             THEN fault' = "index out of range" /\ UNCHANGED kv
             ELSE /\ Called([NoCall EXCEPT !.op = "getkey", !.v = v, !.m = m,
                                           !.err = err,
                                           !.got = IF err = "nil" THEN key
                                                   ELSE EmptyKey])
                  /\ UNCHANGED fault
    /\ UNCHANGED <<ch, cap, cancelled, feeder, sink, flt, cnv, snd, de, tasks,
                   prod, store, cpt, auto, logger>>

\* c.First(): the first key of the bucket, a child bucket's included.
First(bkt) == IF DOMAIN bkt = {} THEN EmptyKey ELSE Head(Ascending(DOMAIN bkt))

\* dbWrapper.GetFirstKeyAt and getFirstKeyAt: db.View with no check of db.
GetFirstKeyAt ==
    /\ kv.on
    /\ fault = "none"
    /\ \E m \in BOOLEAN :
         LET b == Navigate(m, FALSE)
             key == IF b = "ok" THEN First(store.leaf) ELSE EmptyKey
             err == ReadErr(b, key # EmptyKey, m)
         IN  IF NilDb
             THEN NilDereference
             ELSE IF b = "panic"
             THEN fault' = "index out of range" /\ UNCHANGED kv
             ELSE /\ Called([NoCall EXCEPT !.op = "first", !.m = m, !.err = err,
                                           !.got = IF err = "nil" THEN key
                                                   ELSE EmptyKey])
                  /\ UNCHANGED fault
    /\ UNCHANGED <<ch, cap, cancelled, feeder, sink, flt, cnv, snd, de, tasks,
                   prod, store, cpt, auto, logger>>

\* dbWrapper.Delete and delete: one transaction that creates the buckets of the
\* path, rolled back if Delete fails.
Delete ==
    /\ kv.on
    /\ fault = "none"
    /\ \E k \in Keys0 :
         LET s == GetCreateBucket(kv.n)
             err == IF ~kv.pathOK THEN "path"
                    ELSE IF DeleteFails(s.leaf, k) THEN "delete" ELSE "nil"
         IN  IF NilDb
             THEN NilDereference /\ UNCHANGED store
             ELSE /\ store' = IF err = "nil" THEN [s EXCEPT !.leaf = Remove(s.leaf, k)]
                              ELSE store
                  /\ Called([NoCall EXCEPT !.op = "delete", !.k = k, !.err = err])
                  /\ UNCHANGED fault
    /\ UNCHANGED <<ch, cap, cancelled, feeder, sink, flt, cnv, snd, de, tasks,
                   prod, cpt, auto, logger>>

\* The value "" (or []byte{}): no entry of the model's stores holds it, but
\* slices.Equal finds it equal to the nil value of a key that names a child
\* bucket.
EmptyValue == 0 - 2

\* slices.Equal(v, value)
Equal(v, value) == v = value \/ (v = NilValue /\ value = EmptyValue)

DeleteMatchingHeadOnly(bkt, keys, value) ==
    IF keys = <<>> THEN [err |-> "nil", bkt |-> bkt]
    ELSE IF Equal(bkt[Head(keys)], value)
    THEN [err |-> "nil", bkt |-> Remove(bkt, Head(keys))]
    ELSE [err |-> "nil", bkt |-> bkt]

\* for k, v := c.First(); k != nil; k, v = c.Next(): c.Delete() on every entry
\* whose value matches; bbolt's Cursor.Delete refuses a key that names a child
\* bucket, and the scan ends with that error.
RECURSIVE DeleteMatching(_, _, _)
DeleteMatching(bkt, keys, value) ==
    IF keys = <<>> THEN [err |-> "nil", bkt |-> bkt]
    ELSE IF Equal(bkt[Head(keys)], value)
    THEN IF bkt[Head(keys)] = NilValue THEN [err |-> "delete", bkt |-> bkt]
         ELSE DeleteMatching(Remove(bkt, Head(keys)), Tail(keys), value)
    ELSE DeleteMatching(bkt, Tail(keys), value)

\* dbWrapper.DeleteValues and deleteValues: resolveBucketPath, resolveRecord
\* (which refuses nil), the nil check of db, then one transaction that creates
\* the buckets of the path and is rolled back unless the scan comes to its end.
DeleteValues ==
    /\ kv.on
    /\ fault = "none"
    /\ \E v \in Val \cup {NilValue, EmptyValue} :
         LET s == GetCreateBucket(kv.n)
             r == DeleteMatching(s.leaf, Ascending(DOMAIN s.leaf), v)
             err == IF ~kv.pathOK THEN "path"
                    ELSE IF v = NilValue THEN "record"
                    ELSE IF kv.dbNil THEN "nildb"
                    ELSE r.err
         IN  /\ store' = IF err = "nil" THEN [s EXCEPT !.leaf = r.bkt] ELSE store
             /\ Called([NoCall EXCEPT !.op = "deletevalues", !.v = v, !.err = err])
    /\ UNCHANGED <<ch, cap, cancelled, fault, feeder, sink, flt, cnv, snd, de, tasks,
                   prod, cpt, auto, logger>>

\* The add callbacks the caller passes to Upsert: the sum of the two values
\* (kept within Val), the given value, or an error whatever the values are.
AddError == 0 - 1

Adds == {"sum", "second", "refuse"}

Add(f, a, b) ==
    CASE f = "sum" -> ((a + b - 1) % Cardinality(Val)) + 1
      [] f = "second" -> b
      [] OTHER -> AddError

\* db.Batch runs the function once for a lone caller.  A call of another
\* goroutine that joined the same batch and fails rolls the transaction back,
\* and the remaining calls of the batch are run again.
MaxRuns == 2

\* One run of upsert's function on the bucket as the transaction found it, with
\* the captured val as the run found it: its error, val and the bucket after.
UpsertRun(bkt, k, val, f) ==
    LET oldVal == Get(bkt, k)
        new == IF oldVal # NilValue THEN Add(f, oldVal, val) ELSE val
    IN  IF new = AddError THEN [err |-> "add", val |-> val, bkt |-> bkt]
        ELSE IF PutFails(bkt, k) THEN [err |-> "write", val |-> new, bkt |-> bkt]
        ELSE [err |-> "nil", val |-> new, bkt |-> Put(bkt, k, new)]

\* The runs of one call: each starts from the bucket as it was, val is carried
\* from one to the next; a run that fails ends the call with its error.
RECURSIVE Batch(_, _, _, _, _)
Batch(bkt, k, val, f, runs) ==
    LET r == UpsertRun(bkt, k, val, f)
    IN  IF r.err # "nil" \/ runs = 1 THEN r ELSE Batch(bkt, k, r.val, f, runs - 1)

\* dbWrapper.Upsert and upsert; got is the value the function found under k.
Upsert ==
    /\ kv.on
    /\ fault = "none"
    /\ \E k \in Keys0, v \in Val, f \in Adds, runs \in 1..MaxRuns :
         LET s == GetCreateBucket(kv.n)
             r == Batch(s.leaf, k, v, f, runs)
             err == IF ~kv.pathOK THEN "path" ELSE r.err
         IN  IF NilDb
             THEN NilDereference /\ UNCHANGED store
             ELSE /\ store' = IF err = "nil" THEN [s EXCEPT !.leaf = r.bkt]
                              ELSE store
                  /\ Called([NoCall EXCEPT !.op = "upsert", !.k = k, !.v = v,
                                           !.add = f, !.err = err,
                                           !.got = IF err = "path" THEN NilValue
                                                   ELSE Get(s.leaf, k)])
                  /\ UNCHANGED fault
    /\ UNCHANGED <<ch, cap, cancelled, feeder, sink, flt, cnv, snd, de, tasks,
                   prod, cpt, auto, logger>>

\* ------------------------------------------------- InsertValue, typed keys
\* Keys are byte strings here: sequences of numbers in 0..255.  The caller of
\* InsertValue writes to one collection (the bucket at its path, which exists)
\* and reads it back with GetValue, giving the key as a record of any type.
MaxAuto == 2

\* The byte orders getEndianType can find.
Hosts == {"little", "big"}

FormatUintLastDigit(k) == <<48 + (k % 10)>>

\* strconv.FormatUint(k, 10): the decimal digits of k, as ASCII.
RECURSIVE FormatUint(_)
FormatUint(k) ==
    IF k < 10 THEN <<48 + k>> ELSE Append(FormatUint(k \div 10), 48 + (k % 10))

\* strconv.Itoa
Itoa(i) == IF i < 0 THEN <<45>> \o FormatUint(0 - i) ELSE FormatUint(i)

\* binary.LittleEndian.PutUint64, for a buffer of n bytes.
RECURSIVE LittleEndian(_, _)
LittleEndian(u, n) ==
    IF n = 0 THEN <<>> ELSE <<u % 256>> \o LittleEndian(u \div 256, n - 1)

\* binary.BigEndian.PutUint64
BigEndian(u, n) ==
    LET le == LittleEndian(u, n) IN [i \in 1..n |-> le[n + 1 - i]]

\* toBytes: eight bytes in the byte order of the host.
ToBytes(host, u) == IF host = "little" THEN LittleEndian(u, 8) ELSE BigEndian(u, 8)

Unresolved == [ok |-> FALSE, bytes |-> <<>>]

\* resolveRecord: []byte and string as they are, int as its decimal text, uint64
\* through toBytes; nil and every other type are refused.
ResolveRecord(host, r) ==
    CASE r.type \in {"bytes", "string"} -> [ok |-> TRUE, bytes |-> r.val]
      [] r.type = "int" -> [ok |-> TRUE, bytes |-> Itoa(r.val)]
      [] r.type = "uint64" -> [ok |-> TRUE, bytes |-> ToBytes(host, r.val)]
      [] OTHER -> Unresolved

\* bbolt's Bucket.NextSequence
NextSequence(seq) == seq + 1

\* bbolt's Bucket.Put refuses an empty key and a key that names a child bucket.
PutRefuses(bkt, key) == Len(key) = 0 \/ (key \in DOMAIN bkt /\ bkt[key] = NilValue)

NoAutoCall ==
    [op |-> "none", key |-> <<>>, seq |-> 0, type |-> "none", v |-> NilValue,
     m |-> FALSE, err |-> "nil", got |-> NilValue]

\* start is the collection's sequence before the caller's first call, seq its
\* sequence now, keys the keys InsertValue has written, in order.
AutoOff ==
    [on |-> FALSE, host |-> "little", start |-> 0, seq |-> 0,
     bkt |-> [k \in {} |-> NilValue], keys |-> <<>>, prev |-> NoAutoCall,
     last |-> NoAutoCall]

AutoCalled(c) == [auto EXCEPT !.prev = auto.last, !.last = c]

\* dbWrapper.InsertValue and insertValue: one transaction, rolled back (the
\* sequence with it) if Put fails.
InsertValue ==
    /\ auto.on
    /\ fault = "none"
    /\ auto.seq < auto.start + MaxAuto
    /\ \E v \in Val :
         LET k == NextSequence(auto.seq)
             key == FormatUint(k)
             c == [NoAutoCall EXCEPT !.op = "insertvalue", !.key = key, !.seq = k,
                                     !.v = v]
         IN  auto' = IF PutRefuses(auto.bkt, key)
                     THEN AutoCalled([c EXCEPT !.err = "write"])
                     ELSE [AutoCalled(c) EXCEPT !.seq = k, !.bkt = Put(@, key, v),
                                                !.keys = Append(@, key)]
    /\ UNCHANGED <<ch, cap, cancelled, fault, feeder, sink, flt, cnv, snd, de, tasks,
                   prod, store, cpt, kv, logger>>

\* What the caller writes for the number n in its source: "1", "2", "3", "10",
\* "11", "12".
Literal(n) ==
    CASE n = 1 -> <<49>>
      [] n = 2 -> <<50>>
      [] n = 3 -> <<51>>
      [] n = 10 -> <<49, 48>>
      [] n = 11 -> <<49, 49>>
      [] n = 12 -> <<49, 50>>

\* The keys the caller asks for: the number n as an int, as a uint64, as a
\* float (not a record type), or written out, as a string or as bytes.
Records(n) ==
    {[type |-> t, val |-> n] : t \in {"int", "uint64", "float64"}}
    \cup {[type |-> t, val |-> Literal(n)] : t \in {"string", "bytes"}}

\* dbWrapper.GetValue and getValue with a key of any type.
GetValueOf ==
    /\ auto.on
    /\ fault = "none"
    /\ \E n \in (auto.start + 1)..(auto.start + MaxAuto), m \in BOOLEAN :
         \E r \in Records(n) :
           LET k == ResolveRecord(auto.host, r)
               value == IF k.ok THEN Get(auto.bkt, k.bytes) ELSE NilValue
               err == IF ~k.ok THEN "record"
                      ELSE IF value = NilValue /\ m THEN "locate" ELSE "nil"
           IN  auto' = AutoCalled([NoAutoCall EXCEPT
                                     !.op = "get", !.key = k.bytes, !.seq = n,
                                     !.type = r.type, !.m = m, !.err = err,
                                     !.got = IF err = "nil" THEN value ELSE NilValue])
    /\ UNCHANGED <<ch, cap, cancelled, fault, feeder, sink, flt, cnv, snd, de, tasks,
                   prod, store, cpt, kv, logger>>

\* ------------------------------------------------- the timeout's log line
\* The body of "if timeoutLog != nil" in the timeout case of each operator:
\* logMutex.Lock(), timeoutLog.Write(...), logMutex.Unlock(), then the return
\* of the timeout error (with the deferred close of the stage).
FilterLog ==
    /\ fault = "none"
    /\ \/ /\ flt.pc = "lock"
          /\ LogLock(<<"filter", 0>>)
          /\ flt' = [flt EXCEPT !.pc = "write"]
          /\ UNCHANGED <<ch, fault>>
       \/ /\ flt.pc = "write"
          /\ \E ok \in BOOLEAN : LogWritten(<<"filter", 0>>, ok)
          /\ FilterReturn("timeout")
    /\ UNCHANGED <<cap, cancelled, feeder, sink, cnv, snd, de, tasks, prod, store,
                   cpt, kv, auto>>

\* Convert's own timeout, or that of the Send it calls with its timeoutLog.
ConvertLog ==
    /\ fault = "none"
    /\ \/ /\ cnv.pc = "lock"
          /\ LogLock(<<"convert", 0>>)
          /\ cnv' = [cnv EXCEPT !.pc = "write"]
          /\ UNCHANGED <<ch, fault>>
       \/ /\ cnv.pc = "write"
          /\ \E ok \in BOOLEAN : LogWritten(<<"convert", 0>>, ok)
          /\ ConvertReturn("timeout")
    /\ UNCHANGED <<cap, cancelled, feeder, sink, flt, snd, de, tasks, prod, store,
                   cpt, kv, auto>>

SendLog ==
    /\ fault = "none"
    /\ \/ /\ snd.pc = "lock"
          /\ LogLock(<<"send", 0>>)
          /\ snd' = [snd EXCEPT !.pc = "write"]
       \/ /\ snd.pc = "write"
          /\ \E ok \in BOOLEAN : LogWritten(<<"send", 0>>, ok)
          /\ snd' = [snd EXCEPT !.pc = "done", !.ret = "timeout", !.timer = Stopped]
    /\ UNCHANGED <<ch, cap, cancelled, fault, feeder, sink, flt, cnv, de, tasks, prod,
                   store, cpt, kv, auto>>

\* The timeout of DoEach's receive or of goroutineSpawn.
DoEachLog ==
    /\ fault = "none"
    /\ \/ /\ de.pc = "lock"
          /\ LogLock(<<"doeach", 0>>)
          /\ de' = [de EXCEPT !.pc = "write"]
          /\ UNCHANGED <<ch, fault>>
       \/ /\ de.pc = "write"
          /\ \E ok \in BOOLEAN : LogWritten(<<"doeach", 0>>, ok)
          /\ DoEachReturn("timeout")
    /\ UNCHANGED <<cap, cancelled, feeder, sink, flt, cnv, snd, tasks, prod, store,
                   cpt, kv, auto>>

\* The timeout of the Send of task i, and the task's return of its error.
TaskLog(i) ==
    /\ fault = "none"
    /\ \/ /\ tasks[i].pc = "lock"
          /\ LogLock(<<"task", i>>)
          /\ tasks' = [tasks EXCEPT ![i].pc = "write"]
          /\ UNCHANGED de
       \/ /\ tasks[i].pc = "write"
          /\ \E ok \in BOOLEAN : LogWritten(<<"task", i>>, ok)
          /\ tasks' = [tasks EXCEPT ![i].pc = "done", ![i].err = "timeout",
                                    ![i].timer = Stopped]
          /\ de' = EgDone(i, "timeout")
    /\ UNCHANGED <<ch, cap, cancelled, fault, feeder, sink, flt, cnv, snd, prod,
                   store, cpt, kv, auto>>

CaptureLog ==
    /\ fault = "none"
    /\ \/ /\ cpt.pc = "lock"
          /\ LogLock(<<"capture", 0>>)
          /\ cpt' = [cpt EXCEPT !.pc = "write"]
       \/ /\ cpt.pc = "write"
          /\ \E ok \in BOOLEAN : LogWritten(<<"capture", 0>>, ok)
          /\ cpt' = [cpt EXCEPT !.pc = "done", !.ret = "timeout", !.timer = Stopped]
    /\ UNCHANGED <<ch, cap, cancelled, fault, feeder, sink, flt, cnv, snd, de, tasks,
                   prod, store, kv, auto>>

Log ==
    \/ FilterLog
    \/ ConvertLog
    \/ SendLog
    \/ DoEachLog
    \/ (\E i \in DOMAIN tasks : TaskLog(i))
    \/ CaptureLog

\* -------------------------------------------------------------------- time
\* One tick of wall-clock time: every armed timer comes one tick closer to firing.
Tick ==
    /\ fault = "none"
    /\ \/ flt.timer > 0 \/ cnv.timer > 0 \/ snd.timer > 0 \/ de.timer > 0
       \/ prod.timer > 0 \/ cpt.timer > 0
       \/ \E i \in DOMAIN tasks : tasks[i].timer > 0
    /\ flt' = [flt EXCEPT !.timer = TickTimer(@)]
    /\ cnv' = [cnv EXCEPT !.timer = TickTimer(@)]
    /\ snd' = [snd EXCEPT !.timer = TickTimer(@)]
    /\ de' = [de EXCEPT !.timer = TickTimer(@)]
    /\ tasks' = [i \in DOMAIN tasks |-> [tasks[i] EXCEPT !.timer = TickTimer(@)]]
    /\ prod' = [prod EXCEPT !.timer = TickTimer(@)]
    /\ cpt' = [cpt EXCEPT !.timer = TickTimer(@)]
    /\ UNCHANGED <<ch, cap, cancelled, fault, feeder, sink, store, kv, auto, logger>>

\* ---------------------------------------------------------- specifications
\* The capacities of the queues of one stage; the third queue is the pipeline's.
Caps == {c \in [Chans -> 0..MaxCap] : c["c3"] = MaxCap}

NilArgs(names) == {"none"} \cup names

\* Everything but the stage under study is absent.
InitEnv ==
    /\ ch = [c \in Chans |-> EmptyChan]
    /\ cap \in Caps
    /\ cancelled = FALSE
    /\ fault = "none"
    /\ logger = LoggerOff

InitNoDoEach == de = DoEachOff /\ tasks = <<>>

InitNoProducer == prod = ProducerOff /\ store = StoreOff

InitNoCapture == cpt = CaptureOff /\ kv = KvOff /\ auto = AutoOff

InitFilter ==
    /\ InitEnv
    /\ \E i \in Inputs : feeder = [on |-> TRUE, to |-> "c1", todo |-> i, owner |-> TRUE]
    /\ \E b \in BOOLEAN :
         sink = [on |-> b, from |-> "c2", got |-> <<>>, sawClosed |-> FALSE]
    /\ \E a \in SUBSET Val, n \in NilArgs({"in", "out", "allow"}) :
         flt = [FilterOff EXCEPT !.pc = "call",
                                 !.in = IF n = "in" THEN NoChan ELSE "c1",
                                 !.out = IF n = "out" THEN NoChan ELSE "c2",
                                 !.allowNil = (n = "allow"),
                                 !.allow = a]
    /\ cnv = ConvertOff /\ snd = SendOff /\ InitNoDoEach /\ InitNoProducer
    /\ InitNoCapture

NextFilter == Tick \/ Cancel \/ FeederSend \/ FeederClose \/ SinkRecv \/ Filter

SpecFilter == InitFilter /\ [][NextFilter]_vars

Transforms == [Val -> Val \cup {ConvErr}]

InitConvert ==
    /\ InitEnv
    /\ \E i \in Inputs : feeder = [on |-> TRUE, to |-> "c1", todo |-> i, owner |-> TRUE]
    /\ \E b \in BOOLEAN :
         sink = [on |-> b, from |-> "c2", got |-> <<>>, sawClosed |-> FALSE]
    /\ \E f \in Transforms, n \in NilArgs({"in", "out", "convert"}) :
         cnv = [ConvertOff EXCEPT !.pc = "call",
                                  !.in = IF n = "in" THEN NoChan ELSE "c1",
                                  !.out = IF n = "out" THEN NoChan ELSE "c2",
                                  !.convertNil = (n = "convert"),
                                  !.convert = f]
    /\ flt = FilterOff /\ snd = SendOff /\ InitNoDoEach /\ InitNoProducer
    /\ InitNoCapture

NextConvert == Tick \/ Cancel \/ FeederSend \/ FeederClose \/ SinkRecv \/ Convert

SpecConvert == InitConvert /\ [][NextConvert]_vars

\* A caller's Send on a queue that another goroutine also fills and a consumer
\* may or may not drain.
InitSend ==
    /\ InitEnv
    /\ \E i \in Inputs : feeder = [on |-> TRUE, to |-> "c1", todo |-> i, owner |-> FALSE]
    /\ \E b \in BOOLEAN :
         sink = [on |-> b, from |-> "c1", got |-> <<>>, sawClosed |-> FALSE]
    /\ \E v \in Val, c \in {"c1", NoChan} :
         snd = [SendOff EXCEPT !.pc = "call", !.to = c, !.v = v]
    /\ flt = FilterOff /\ cnv = ConvertOff /\ InitNoDoEach /\ InitNoProducer
    /\ InitNoCapture

NextSend == Tick \/ Cancel \/ FeederSend \/ SinkRecv \/ Send

SpecSend == InitSend /\ [][NextSend]_vars

MaxLimit == 2

InitDoEach ==
    /\ InitEnv
    /\ cap["c1"] = MaxCap
    /\ \E i \in Inputs : feeder = [on |-> TRUE, to |-> "c1", todo |-> i, owner |-> TRUE]
    /\ sink = [on |-> TRUE, from |-> "c2", got |-> <<>>, sawClosed |-> FALSE]
    /\ \E l \in 0..MaxLimit, e \in SUBSET Val, f \in SUBSET Val,
          n \in NilArgs({"in", "out", "do"}) :
         de = [DoEachOff EXCEPT !.pc = "call",
                                !.in = IF n = "in" THEN NoChan ELSE "c1",
                                !.out = IF n = "out" THEN NoChan ELSE "c2",
                                !.doNil = (n = "do"),
                                !.workLimit = l, !.emits = e, !.fails = f]
    /\ tasks = <<>>
    /\ flt = FilterOff /\ cnv = ConvertOff /\ snd = SendOff /\ InitNoProducer
    /\ InitNoCapture

NextDoEach ==
    Tick \/ Cancel \/ FeederSend \/ FeederClose \/ SinkRecv \/ DoEach \/ Task

SpecDoEach == InitDoEach /\ [][NextDoEach]_vars

Variants == {"values", "keys", "entries", "buckets"}

\* The stores that differ for a path of n segments.
Stores(n) ==
    {StoreOff}
    \cup {[root |-> TRUE, depth |-> d, leaf |-> EmptyLeaf] : d \in 0..(n - 1)}
    \cup {[root |-> TRUE, depth |-> n, leaf |-> l] : l \in Leaves}

InitProducer ==
    /\ InitEnv
    /\ cap["c2"] = MaxCap
    /\ feeder = FeederOff
    /\ \E b \in BOOLEAN :
         sink = [on |-> b, from |-> "c1", got |-> <<>>, sawClosed |-> FALSE]
    /\ \E n \in 0..MaxPath, d \in BOOLEAN :
         /\ store \in (IF d THEN {StoreOff} ELSE Stores(n))
         /\ \E t \in Variants, ok \in BOOLEAN, m \in BOOLEAN :
              prod = [ProducerOff EXCEPT !.pc = "call", !.variant = t, !.dbNil = d,
                                         !.pathOK = ok, !.n = n, !.mustExist = m,
                                         !.out = "c1"]
    /\ flt = FilterOff /\ cnv = ConvertOff /\ snd = SendOff /\ InitNoDoEach
    /\ InitNoCapture

NextProducer == Tick \/ SinkRecv \/ Producer

SpecProducer == InitProducer /\ [][NextProducer]_vars

\* The collection may hold values before the call.
MaxFirst == 1

InitCapture ==
    /\ InitEnv
    /\ cap["c2"] = MaxCap
    /\ \E i \in Inputs : feeder = [on |-> TRUE, to |-> "c1", todo |-> i, owner |-> TRUE]
    /\ sink = SinkOff
    /\ \E b \in BOOLEAN, f \in SeqsUpTo(MaxFirst), m \in {"nil", "unlocked"},
          n \in NilArgs({"buffer", "into"}) :
         \E sl \in (IF b THEN Slices ELSE {"bytes"}) :
           \E ps \in (IF sl \in {"number", "float64"} THEN SUBSET Val ELSE {{}}) :
             cpt = [CaptureOff EXCEPT
                      !.pc = "call", !.bytes = b,
                      !.buffer = IF n = "buffer" THEN NoChan ELSE "c1",
                      !.intoNil = (n = "into"),
                      !.slice = sl, !.parses = ps, !.mut = m,
                      !.first = IF b THEN [j \in DOMAIN f |-> Element(sl, f[j])] ELSE f,
                      !.into = IF b THEN [j \in DOMAIN f |-> Element(sl, f[j])] ELSE f]
    /\ flt = FilterOff /\ cnv = ConvertOff /\ snd = SendOff
    /\ InitNoDoEach /\ InitNoProducer /\ kv = KvOff /\ auto = AutoOff

NextCapture == Tick \/ Cancel \/ FeederSend \/ FeederClose \/ Capture

SpecCapture == InitCapture /\ [][NextCapture]_vars

\* A caller of Insert, GetValue and Delete on a store in any state.
InitKv ==
    /\ InitEnv
    /\ cap = [c \in Chans |-> MaxCap]
    /\ feeder = FeederOff /\ sink = SinkOff
    /\ \E n \in 0..MaxPath, d \in BOOLEAN :
         /\ store \in (IF d THEN {StoreOff} ELSE Stores(n))
         /\ \E ok \in BOOLEAN :
              kv = [KvOff EXCEPT !.on = TRUE, !.dbNil = d, !.pathOK = ok, !.n = n]
    /\ flt = FilterOff /\ cnv = ConvertOff /\ snd = SendOff
    /\ InitNoDoEach /\ prod = ProducerOff /\ cpt = CaptureOff /\ auto = AutoOff

NextKv == Insert \/ GetValue \/ GetKey \/ GetFirstKeyAt \/ Delete

SpecKv == InitKv /\ [][NextKv]_vars

\* A caller of Upsert among Insert, GetValue and Delete.
NextUpsert == Upsert \/ Insert \/ GetValue \/ Delete

SpecUpsert == InitKv /\ [][NextUpsert]_vars

\* A caller of Delete and DeleteValues among Insert and GetValue.
NextDeletes == DeleteValues \/ Delete \/ Insert \/ GetValue

SpecDeletes == InitKv /\ [][NextDeletes]_vars

\* A caller of a producer, or of the reads and writes of single entries, with a
\* path of any type: the wrapper starts with resolveBucketPath(path), whose
\* outcome is pathOK and the number of segments n.
InitPaths ==
    /\ InitEnv
    /\ cap = [c \in Chans |-> MaxCap]
    /\ feeder = FeederOff
    /\ flt = FilterOff /\ cnv = ConvertOff /\ snd = SendOff /\ InitNoDoEach
    /\ cpt = CaptureOff /\ auto = AutoOff
    /\ \E p \in Paths :
         LET r == ResolveBucketPath(p)
             n == Len(r.resolved)
         IN  /\ store \in Stores(n)
             /\ \/ /\ sink = [on |-> TRUE, from |-> "c1", got |-> <<>>,
                               sawClosed |-> FALSE]
                   /\ \E t \in Variants :
                        prod = [ProducerOff EXCEPT !.pc = "call", !.variant = t,
                                                   !.path = p, !.pathOK = r.ok,
                                                   !.n = n, !.out = "c1"]
                   /\ kv = KvOff
                \/ /\ sink = SinkOff
                   /\ prod = ProducerOff
                   /\ kv = [KvOff EXCEPT !.on = TRUE, !.path = p, !.pathOK = r.ok,
                                         !.n = n]

NextPaths ==
    \/ Tick \/ SinkRecv \/ Producer
    \/ Insert \/ Delete \/ GetValue \/ GetFirstKeyAt

SpecPaths == InitPaths /\ [][NextPaths]_vars

\* The readme's pipeline: BucketsAt([][]byte{}, true, accountBuffer), DoEach
\* from accountBuffer to isClosedBuf with a task that sends some of the
\* accounts on, Filter from isClosedBuf to captureBuf, CaptureBytes from
\* captureBuf into a []string; the database is opened, with accounts or fresh.
Items == {<<k>> : k \in Key}

Accounts ==
    {StoreOff}
    \cup {[root |-> TRUE, depth |-> 0, leaf |-> l] : l \in [Key -> {NilValue, 1}]}

InitPipeline ==
    /\ ch = [c \in Chans |-> EmptyChan]
    /\ cap = [c \in Chans |-> MaxCap]
    /\ cancelled = FALSE
    /\ fault = "none"
    /\ logger = LoggerOff
    /\ feeder = FeederOff /\ sink = SinkOff
    /\ store \in Accounts
    /\ prod = [ProducerOff EXCEPT !.pc = "call", !.variant = "buckets",
                                  !.path = [type |-> "[][]byte", segs |-> <<>>],
                                  !.mustExist = TRUE, !.out = "c1"]
    /\ \E l \in {1, MaxLimit}, e \in {Items, {<<1>>}}, f \in {{}, {<<MaxKey>>}} :
         de = [DoEachOff EXCEPT !.pc = "call", !.in = "c1", !.out = "c2",
                                !.workLimit = l, !.emits = e, !.fails = f]
    /\ tasks = <<>>
    /\ flt = [FilterOff EXCEPT !.pc = "call", !.in = "c2", !.out = "c3",
                               !.allow = Items \ {<<1>>}]
    /\ cpt = [CaptureOff EXCEPT !.pc = "call", !.bytes = TRUE, !.buffer = "c3",
                                !.slice = "bytes"]
    /\ cnv = ConvertOff /\ snd = SendOff /\ kv = KvOff /\ auto = AutoOff

NextPipeline == Tick \/ Cancel \/ Producer \/ DoEach \/ Task \/ Filter \/ Capture

SpecPipeline == InitPipeline /\ [][NextPipeline]_vars

\* The four stages are goroutines of eg.Go, the tasks goroutines of DoEach's
\* group, all of them the library's code but for the task's lookup: each runs
\* while it can, and time passes.
FairSpecPipeline ==
    /\ SpecPipeline
    /\ WF_vars(Tick) /\ WF_vars(Producer) /\ WF_vars(DoEach) /\ WF_vars(Task)
    /\ WF_vars(Filter) /\ WF_vars(Capture)

\* The collection is fresh, or has given out nine sequence numbers already and
\* holds under "10" nothing, an entry written with Insert, or a child bucket.
Collections ==
    {[start |-> 0, bkt |-> [k \in {} |-> NilValue]]}
    \cup {[start |-> 9, bkt |-> b] :
            b \in {[k \in {} |-> NilValue]}
                  \cup {[k \in {<<49, 48>>} |-> v] : v \in Val \cup {NilValue}}}

InitAuto ==
    /\ InitEnv
    /\ cap = [c \in Chans |-> MaxCap]
    /\ feeder = FeederOff /\ sink = SinkOff
    /\ \E h \in Hosts, c \in Collections :
         auto = [AutoOff EXCEPT !.on = TRUE, !.host = h, !.start = c.start,
                                !.seq = c.start, !.bkt = c.bkt]
    /\ flt = FilterOff /\ cnv = ConvertOff /\ snd = SendOff
    /\ InitNoDoEach /\ InitNoProducer /\ cpt = CaptureOff /\ kv = KvOff

NextAuto == InsertValue \/ GetValueOf

SpecAuto == InitAuto /\ [][NextAuto]_vars

\* A read of either kind: a producer, or GetValue, GetKey and GetFirstKeyAt.
InitReads == InitProducer \/ InitKv

NextReads == Tick \/ SinkRecv \/ Producer \/ GetValue \/ GetKey \/ GetFirstKeyAt

SpecReads == InitReads /\ [][NextReads]_vars

\* One of Filter, Convert and DoEach, whichever the caller runs.
InitStages == InitFilter \/ InitConvert \/ InitDoEach

NextStages ==
    \/ Tick \/ Cancel \/ FeederSend \/ FeederClose \/ SinkRecv
    \/ Filter \/ Convert \/ DoEach \/ Task

SpecStages == InitStages /\ [][NextStages]_vars

\* Send on its own, or one of the stages.
InitCalls == InitSend \/ InitStages

NextCalls == NextStages \/ Send

\* Any one call of the channel operators.
InitCallers == InitCalls \/ InitCapture

NextCallers == NextCalls \/ Capture

SpecCallers == InitCallers /\ [][NextCallers]_vars

\* One of the stages that take a context: the three above or a capture.
InitConsumers == InitStages \/ InitCapture

NextConsumers == NextStages \/ Capture

SpecConsumers == InitConsumers /\ [][NextConsumers]_vars

\* Calls that run side by side and share the timeoutLog they are given (or are
\* all given nil): a Filter read by a Capture; a Convert and a Send of the
\* caller that fill the same queue, which nobody reads; or a DoEach whose
\* tasks send on, read by the caller or not.
InitLogs ==
    /\ ch = [c \in Chans |-> EmptyChan]
    /\ cap = [c \in Chans |-> MaxCap]
    /\ cancelled = FALSE
    /\ fault = "none"
    /\ \E g \in BOOLEAN : logger = [LoggerOff EXCEPT !.given = g]
    /\ \E i \in Inputs : feeder = [on |-> TRUE, to |-> "c1", todo |-> i, owner |-> TRUE]
    /\ InitNoProducer /\ kv = KvOff /\ auto = AutoOff
    /\ \/ /\ sink = SinkOff
          /\ flt = [FilterOff EXCEPT !.pc = "call", !.in = "c1", !.out = "c2",
                                     !.allow = Val]
          /\ cpt = [CaptureOff EXCEPT !.pc = "call", !.buffer = "c2"]
          /\ cnv = ConvertOff /\ snd = SendOff /\ InitNoDoEach
       \/ /\ sink = SinkOff
          /\ cnv = [ConvertOff EXCEPT !.pc = "call", !.in = "c1", !.out = "c2"]
          /\ \E v \in Val : snd = [SendOff EXCEPT !.pc = "call", !.to = "c2", !.v = v]
          /\ flt = FilterOff /\ cpt = CaptureOff /\ InitNoDoEach
       \/ /\ \E b \in BOOLEAN :
               sink = [on |-> b, from |-> "c2", got |-> <<>>, sawClosed |-> FALSE]
          /\ \E l \in 0..1, e \in {Val, {1}} :
               de = [DoEachOff EXCEPT !.pc = "call", !.in = "c1", !.out = "c2",
                                      !.workLimit = l, !.emits = e]
          /\ tasks = <<>>
          /\ flt = FilterOff /\ cnv = ConvertOff /\ snd = SendOff /\ cpt = CaptureOff

NextLogs == NextCallers \/ Log

SpecLogs == InitLogs /\ [][NextLogs]_vars

\* ------------------------------------------------------------------ claims
Mapped(f, s) == [i \in DOMAIN s |-> f[s[i]]]

Occurrences(s, x) == Cardinality({i \in DOMAIN s : s[i] = x})

\* Two sequences hold the same values the same number of times each.
SameMultiset(s, t) ==
    /\ Len(s) = Len(t)
    /\ \A i \in DOMAIN s : Occurrences(s, s[i]) = Occurrences(t, s[i])

Front(s) == SubSeq(s, 1, Len(s) - 1)

\* C1: when Filter returns nil (its input was closed and drained, no timeout and
\* no cancellation fired), the values it sent to out are exactly the received
\* values that satisfy the predicate, in the order received.
C1_FilterSubsequence ==
    (flt.pc = "done" /\ flt.ret = "nil") =>
        /\ ch[flt.in].closed /\ ch[flt.in].buf = <<>>
        /\ flt.sent = SelectSeq(flt.rcvd, LAMBDA v : v \in flt.allow)

C1_Witness ==
    /\ flt.pc = "done" /\ flt.ret = "nil"
    /\ Len(flt.rcvd) = MaxLen
    /\ flt.sent # <<>> /\ Len(flt.sent) < Len(flt.rcvd)

\* C2: when Convert returns nil the multiset of values sent to out is the image
\* of the multiset of received values under the transform; a received value on
\* which the transform fails is the last one received: Convert has returned the
\* transform error for it and has sent the images of the values before it only.
C2_ConvertImage ==
    /\ (cnv.pc = "done" /\ cnv.ret = "nil") =>
           SameMultiset(cnv.sent, Mapped(cnv.convert, cnv.rcvd))
    /\ \A i \in DOMAIN cnv.rcvd :
           cnv.convert[cnv.rcvd[i]] = ConvErr =>
               /\ i = Len(cnv.rcvd)
               /\ cnv.pc = "done" /\ cnv.ret = "convert" /\ cnv.failed = cnv.rcvd[i]
               /\ cnv.sent = Mapped(cnv.convert, Front(cnv.rcvd))

C2_Witness ==
    /\ cnv.pc = "done" /\ cnv.ret = "nil"
    /\ Len(cnv.rcvd) = MaxLen
    /\ cnv.sent # cnv.rcvd

C2_WitnessFailure ==
    /\ cnv.pc = "done" /\ cnv.ret = "convert"
    /\ Len(cnv.rcvd) = MaxLen /\ Len(cnv.sent) = MaxLen - 1

\* The output queue of a stage and how the stage stands.
Owned(stage) ==
    stage.out # NoChan /\ stage.pc # "off"

ClosedOnceOnExit(stage) ==
    Owned(stage) =>
        /\ ch[stage.out].closes = (IF stage.pc = "done" THEN 1 ELSE 0)
        /\ ch[stage.out].closed = (stage.pc = "done")

\* C3: Filter, Convert and DoEach close their output queue exactly once, when
\* they return and on whatever path they return (closure of the input, timeout,
\* cancellation, callback error, nil argument with a non-nil out): the queue is
\* open until then and has been closed once from then on.
C3_ClosesOutOnce ==
    ClosedOnceOnExit(flt) /\ ClosedOnceOnExit(cnv) /\ ClosedOnceOnExit(de)

C3_Witness ==
    /\ de.pc = "done" /\ de.ret = "timeout" /\ ch[de.out].closes = 1
    /\ Len(de.rcvd) = 1

\* C4 (as claimed): every producer variant has closed its output queue exactly
\* once when it returns, on whatever path it returns.
C4_ProducerClosesOnce ==
    prod.pc = "done" => ch[prod.out].closed /\ ch[prod.out].closes = 1

\* C5 (as claimed): when DoEach has returned no admitted task is still running,
\* and no task ever sends on the closed output queue.
C5_DoEachWaitsForTasks ==
    /\ de.pc = "done" => Running = {}
    /\ fault # "send on closed channel"

\* C6: with a limit of 1 or more, no more task executions than the limit run at
\* any instant; with a limit below 1 TryGo is never refused (an admission is
\* retried only under a limit).
C6_WithinLimit ==
    /\ [](de.workLimit >= 1 => Cardinality(Running) <= de.workLimit)
    /\ [][(de.pc = "admit" /\ de'.pc = "spawn") => de.workLimit >= 1]_vars

C6_Witness ==
    /\ de.workLimit = 1 /\ Cardinality(Running) = 1
    /\ de.pc = "spawn" /\ de.timer # Stopped

C6_WitnessUnlimited == de.workLimit = 0 /\ Cardinality(Running) = MaxLen

\* C7: with a limit of 1, once DoEach has returned from eg.Wait() (its input was
\* closed) and no timeout fired, the task has run to its end exactly once for
\* each received value, and the values emitted to out are, as a multiset, those
\* a sequential run of the task over the received values emits.
C7_SequentialEquivalent ==
    (/\ de.workLimit = 1
     /\ de.pc = "done" /\ de.ret \in {"nil", "task"}
     /\ \A i \in DOMAIN tasks : tasks[i].err # "timeout") =>
        /\ Len(tasks) = Len(de.rcvd)
        /\ \A i \in DOMAIN tasks : tasks[i].v = de.rcvd[i] /\ tasks[i].pc = "done"
        /\ SameMultiset(de.emitted, SelectSeq(de.rcvd, LAMBDA v : v \in de.emits))

C7_Witness ==
    /\ de.workLimit = 1 /\ de.pc = "done" /\ de.ret = "nil"
    /\ Len(de.rcvd) = MaxLen /\ Len(de.emitted) = MaxLen

\* The scheduling the Go runtime guarantees: time passes, and a goroutine that
\* can take a step of the library's own code takes it.  Tasks are the caller's
\* code and may run for as long as they like.
FairSpecDoEach == SpecDoEach /\ WF_vars(Tick) /\ WF_vars(DoEach)

Admitting == de.pc \in {"spawn", "admit"}

\* C8 (as claimed): DoEach does not retry admission for ever: under a pool that
\* stays saturated it leaves goroutineSpawn (with the Timeout error).
C8_AdmissionTimesOut == Admitting ~> ~Admitting

FairSpecCalls ==
    /\ InitCalls /\ [][NextCalls]_vars
    /\ WF_vars(Tick) /\ WF_vars(Send) /\ WF_vars(Filter) /\ WF_vars(Convert)
    /\ WF_vars(DoEach)

C10_SendOnce ==
    [][/\ (snd.pc = "select" /\ snd'.pc = "done") =>
            IF snd'.ret = "nil"
            THEN ch' = [ch EXCEPT ![snd.to].buf = Append(@, snd.v)]
            ELSE ch' = ch /\ snd'.ret \in {"cancelled", "timeout"}
       /\ (snd.pc = "call" /\ snd' # snd) => ch' = ch
       /\ snd.pc = "done" => snd' = snd
       /\ snd'.enq = (IF snd'.pc = "done" /\ snd'.ret = "nil" THEN 1 ELSE 0)]_vars

C10_Witness ==
    /\ snd.pc = "done" /\ snd.ret = "timeout" /\ snd.enq = 0
    /\ cap[snd.to] = MaxCap /\ Len(ch[snd.to].buf) = MaxCap


\* C11 (as claimed): every blocking operation of a stage is guarded by the
\* cancellation token: whenever the token is done and a stage stands at its
\* receive, at its send, or in DoEach's admission loop, the stage's return with
\* the cancellation error is one of the steps it can take at once, without its
\* timer having to fire.
C11_CancellationGuardsEveryWait ==
    /\ (cancelled /\ flt.pc \in {"recv", "send"} /\ ~Committed(flt.in)) =>
           ENABLED (Filter /\ flt'.pc = "done" /\ flt'.ret = "cancelled")
    /\ (cancelled /\ cnv.pc \in {"recv", "send"} /\ ~Committed(cnv.in)) =>
           ENABLED (Convert /\ cnv'.pc = "done" /\ cnv'.ret = "cancelled")
    /\ (cancelled /\ de.pc \in {"recv", "spawn", "admit"} /\ ~Committed(de.in)) =>
           ENABLED (DoEach /\ de'.pc = "done" /\ de'.ret = "cancelled")


\* C12 (as claimed): from the moment the token is done a stage does no further
\* work: no step taken while the token is done receives a value from the input,
\* forwards one to the output, appends one to the collection or admits a task,
\* whether or not the input has a value ready.
C12_NoWorkOnceCancelled ==
    [][cancelled =>
         /\ flt'.rcvd = flt.rcvd /\ flt'.sent = flt.sent
         /\ cnv'.rcvd = cnv.rcvd /\ cnv'.sent = cnv.sent
         /\ de'.rcvd = de.rcvd /\ Len(tasks') = Len(tasks)
         /\ cpt'.rcvd = cpt.rcvd /\ cpt'.into = cpt.into]_vars


\* The scheduling the Go runtime guarantees for a capture: time passes and the
\* goroutine of the call runs; the goroutine filling the queue owes nothing.
FairSpecCapture == SpecCapture /\ WF_vars(Tick) /\ WF_vars(Capture)

\* What the call appends for the values s, in order.
Captured(s) == [i \in DOMAIN s |-> IF cpt.bytes THEN Element(cpt.slice, s[i]) ELSE s[i]]

\* The values given to the queue: those received, those in it, those yet to be sent.
Queued == cpt.rcvd \o ch[cpt.buffer].buf \o feeder.todo

\* C13: Capture (and CaptureBytes) returns nil only on having observed its queue
\* closed, and each other outcome only for its own cause; the values it receives
\* are those sent on the queue, in the order sent; when it returns nil every
\* value sent has been received and the collection is its initial contents
\* followed by those values, each once, in that order; and a call that has
\* entered its loop leaves it (it returns, or the runtime stops it).
C13_CaptureDrains ==
    /\ [](cpt.pc = "done" /\ cpt.ret = "nil" =>
            /\ ch[cpt.buffer].closed /\ ch[cpt.buffer].buf = <<>> /\ feeder.todo = <<>>
            /\ cpt.into = cpt.first \o Captured(cpt.rcvd))
    /\ [][cpt.pc = "recv" =>
            /\ Queued' = Queued
            /\ cpt'.pc = "done" =>
                 CASE cpt'.ret = "nil" ->
                        ch[cpt.buffer].closed /\ ch[cpt.buffer].buf = <<>>
                   [] cpt'.ret = "cancelled" -> cancelled /\ cpt'.rcvd = cpt.rcvd
                   [] cpt'.ret = "timeout" -> cpt.timer = 0 /\ cpt'.rcvd = cpt.rcvd
                   [] OTHER -> cpt.bytes /\ Len(cpt'.rcvd) = Len(cpt.rcvd) + 1]_vars
    /\ (cpt.pc = "recv") ~> (cpt.pc \in {"done", "panicked"})

C13_Witness ==
    /\ cpt.pc = "done" /\ cpt.ret = "nil" /\ ~cpt.bytes
    /\ Len(cpt.rcvd) = MaxLen /\ Len(cpt.first) = MaxFirst
    /\ Len(cpt.into) = MaxFirst + MaxLen


\* The task executions that have returned an error.
Failed == {i \in DOMAIN tasks : tasks[i].pc = "done" /\ tasks[i].err # "nil"}

\* C14: when DoEach returns from eg.Wait() its input is closed and every admitted
\* task has returned; it returns nil if and only if no task failed, and else the
\* error of the task that was the first to fail: the error kept is set by the
\* first task that returns one and is never replaced by a later one.
C14_FirstTaskError ==
    /\ [](de.pc = "done" /\ de.ret \in {"nil", "task"} =>
            /\ ch[de.in].closed /\ Running = {}
            /\ de.ret = "nil" <=> Failed = {}
            /\ de.ret = "task" => de.egErr \in Failed)
    /\ [](de.egErr = 0 <=> Failed = {})
    /\ [][de'.egErr # de.egErr =>
            /\ Failed = {}
            /\ de'.egErr \in Running
            /\ Failed' = {de'.egErr}]_vars

C14_Witness ==
    /\ de.pc = "done" /\ de.ret = "task"
    /\ Failed = {1, 2} /\ de.egErr = 2


\* The entries a variant is to push: the child buckets for BucketsAt, the
\* entries with a payload for the others; and what it is to push for one.
Qualifies(variant, v) == IF variant = "buckets" THEN v = NilValue ELSE v # NilValue

Expected(variant, k, v) ==
    CASE variant = "values" -> <<v>>
      [] variant = "entries" -> <<k, v>>
      [] OTHER -> <<k>>

\* The scan found its bucket and ran to the end of it, every send having succeeded.
ScannedAll ==
    /\ prod.pc = "done" /\ prod.ret = "nil"
    /\ prod.pathOK /\ store.root /\ store.depth = prod.n

\* The key of the j-th push: the j-th smallest qualifying key of the bucket.
Rank(K, k) == Cardinality({x \in K : x <= k})

\* C15 (as claimed): a scan of an existing bucket that ran to its end has pushed
\* the qualifying entries of the bucket and nothing else, each once, in ascending
\* key order, and the queue is closed: with N qualifying entries, N pushes.
C15_PushesQualifyingAscending ==
    ScannedAll =>
        LET K == {k \in DOMAIN store.leaf : Qualifies(prod.variant, store.leaf[k])}
        IN  /\ Len(prod.pushed) = Cardinality(K)
            /\ \A k \in K :
                 prod.pushed[Rank(K, k)] = Expected(prod.variant, k, store.leaf[k])
            /\ ch[prod.out].closed


\* The root bucket or a segment of the producer's (well-typed) path is missing
\* in the database.
Missing == prod.pathOK /\ ~prod.dbNil /\ ~(store.root /\ store.depth = prod.n)

\* C16 (as claimed): when the root or a segment of the path does not exist, a
\* producer of any variant starts no scan and pushes nothing; it returns no
\* error if mustExist is false and the Access error if mustExist is true.
C16_MissingSegment ==
    (Missing /\ prod.pc \notin {"off", "call"}) =>
        /\ prod.pc = "done"
        /\ prod.pushed = <<>>
        /\ prod.ret = (IF prod.mustExist THEN "access" ELSE "nil")


\* C17 (as claimed): whatever a producer pushes is the entry under its cursor and
\* that entry qualifies for the variant: an entry with a payload for ValuesAt,
\* KeysAt and EntriesAt, a child bucket for BucketsAt.
C17_PushesOnlyItsKind ==
    [][prod'.pushed # prod.pushed =>
         /\ prod.cur # <<>>
         /\ Qualifies(prod.variant, store.leaf[Head(prod.cur)])]_vars


\* C18 (as claimed): what ValuesAt pushes for an entry with a payload is the
\* payload of the entry under its cursor, not its key.
C18_ValuesAtPushesValues ==
    [][(/\ prod.variant = "values"
        /\ prod'.pushed # prod.pushed
        /\ Qualifies("values", store.leaf[Head(prod.cur)])) =>
           prod'.pushed = Append(prod.pushed, <<store.leaf[Head(prod.cur)]>>)]_vars


\* The call returned without error.
Ok(c, op) == c.op = op /\ c.err = "nil"

\* C19: a GetValue of key k that directly follows a successful Insert of (k, v)
\* returns v and no error, whatever mustExist is and whether or not the buckets
\* of the path existed before the Insert; a GetValue of k that directly follows
\* a successful Delete of k returns the absent value and no error when
\* mustExist is false, and an error when mustExist is true.
C19_RoundTrip ==
    (kv.last.op = "get" /\ kv.last.k = kv.prev.k) =>
        /\ Ok(kv.prev, "insert") =>
               kv.last.err = "nil" /\ kv.last.got = kv.prev.v
        /\ Ok(kv.prev, "delete") =>
               IF kv.last.m THEN kv.last.err # "nil"
               ELSE kv.last.err = "nil" /\ kv.last.got = NilValue

C19_Witness ==
    /\ Ok(kv.prev, "insert") /\ kv.last.op = "get" /\ kv.last.k = kv.prev.k
    /\ kv.last.m /\ kv.last.got = kv.prev.v /\ kv.last.got # NilValue
    /\ kv.n = MaxPath

C19_WitnessDelete ==
    /\ Ok(kv.prev, "delete") /\ kv.prev.k # EmptyKey
    /\ kv.last.op = "get" /\ kv.last.k = kv.prev.k /\ kv.last.m
    /\ kv.last.err = "locate"


\* The call was given a nil argument that the operator checks for.
NilCall(stage) ==
    CASE stage = "send" -> snd.pc # "off" /\ snd.to = NoChan
      [] stage = "capture" ->
           cpt.pc # "off" /\ (cpt.buffer = NoChan \/ (cpt.bytes /\ cpt.intoNil))
      [] stage = "filter" ->
           flt.pc # "off" /\ (flt.in = NoChan \/ flt.out = NoChan \/ flt.allowNil)
      [] stage = "convert" ->
           cnv.pc # "off" /\ (cnv.in = NoChan \/ cnv.out = NoChan \/ cnv.convertNil)
      [] OTHER -> de.pc # "off" /\ (de.in = NoChan \/ de.out = NoChan \/ de.doNil)

\* The call has not started or has returned the nil-argument error.
Refused(call) == call.pc = "call" \/ (call.pc = "done" /\ call.ret = "nilarg")

\* C20: a call of Send, Capture, CaptureBytes, Filter, Convert or DoEach with a
\* nil queue, predicate, transform or task never enters its loop: its one step
\* returns the nil-argument error, it has received, sent, appended, converted
\* and admitted nothing, and that step leaves the content of every queue as it
\* was.
C20_NilArgumentsEager ==
    /\ [](NilCall("send") => Refused(snd) /\ snd.enq = 0)
    /\ [](NilCall("capture") => Refused(cpt) /\ cpt.rcvd = <<>> /\ cpt.into = cpt.first)
    /\ [](NilCall("filter") => Refused(flt) /\ flt.rcvd = <<>> /\ flt.sent = <<>>)
    /\ [](NilCall("convert") => Refused(cnv) /\ cnv.rcvd = <<>> /\ cnv.sent = <<>>)
    /\ [](NilCall("doeach") => Refused(de) /\ de.rcvd = <<>> /\ tasks = <<>>)
    /\ [][(\/ (snd'.ret = "nilarg" /\ snd.ret # "nilarg")
           \/ (cpt'.ret = "nilarg" /\ cpt.ret # "nilarg")
           \/ (flt'.ret = "nilarg" /\ flt.ret # "nilarg")
           \/ (cnv'.ret = "nilarg" /\ cnv.ret # "nilarg")
           \/ (de'.ret = "nilarg" /\ de.ret # "nilarg")) =>
              \A c \in Chans : ch'[c].buf = ch[c].buf]_vars

C20_Witness ==
    /\ de.pc = "done" /\ de.ret = "nilarg" /\ de.doNil
    /\ ch[de.in].buf # <<>> /\ ch[de.out].closed


\* C21 (as claimed): a read operation of a wrapper whose database is nil never
\* panics and returns an error: a producer called on it has returned an error
\* once it has started, and a GetValue, GetKey or GetFirstKeyAt on it has
\* returned one.
C21_NilDatabaseIsAnError ==
    /\ (prod.dbNil /\ prod.pc \notin {"off", "call"}) =>
           prod.pc = "done" /\ prod.ret # "nil"
    /\ kv.dbNil =>
           /\ fault = "none"
           /\ kv.last.op \in {"get", "getkey", "first"} => kv.last.err # "nil"

\* The producer's call has ended with an error that names its caller.
ErrorNamesCaller(p) == p.pc = "done" /\ p.ret # "nil" /\ NamesCaller(p.ret)

\* C22 (as claimed): ValuesAt returns an error that names the calling site when
\* the bucket at the path does not exist and mustExist is true, when the path
\* is nil, when the wrapper has no database, and when its send times out for
\* want of a receiver.
C22_ValuesAtErrorsNameCaller ==
    /\ [](prod.variant = "values" /\ prod.pc \notin {"off", "call"} =>
            /\ Missing /\ prod.mustExist => ErrorNamesCaller(prod)
            /\ ~prod.pathOK => ErrorNamesCaller(prod)
            /\ prod.pathOK /\ prod.dbNil => ErrorNamesCaller(prod))
    /\ [][(prod.variant = "values" /\ prod.pc = "send" /\ prod'.pc = "done") =>
            ErrorNamesCaller(prod')]_vars

\* The text is a decimal numeral, and the number it denotes.
IsDecimal(s) ==
    /\ s # <<>>
    /\ \A i \in DOMAIN s : s[i] \in 48..57
    /\ Len(s) > 1 => s[1] # 48

RECURSIVE Decimal(_)
Decimal(s) == IF s = <<>> THEN 0 ELSE 10 * Decimal(Front(s)) + (s[Len(s)] - 48)

C23_WitnessTwoDigits ==
    /\ auto.start = 9 /\ Len(auto.keys) = MaxAuto
    /\ auto.keys[1] = <<49, 48>> /\ auto.keys[2] = <<49, 49>>
    /\ auto.bkt[<<49, 48>>] # auto.bkt[<<49, 49>>]

\* C24 (as claimed): the key InsertValue writes is the sequence number as eight
\* bytes in the byte order of the host, what resolveRecord gives for a uint64:
\* a GetValue with the sequence number as a uint64 key right after the
\* InsertValue returns the value written.
C24_AutoKeyIsUint64 ==
    /\ \A i \in DOMAIN auto.keys : auto.keys[i] = ToBytes(auto.host, auto.start + i)
    /\ (/\ Ok(auto.prev, "insertvalue")
        /\ auto.last.op = "get" /\ auto.last.type = "uint64"
        /\ auto.last.seq = auto.prev.seq) =>
           auto.last.err = "nil" /\ auto.last.got = auto.prev.v


\* C25: after an Upsert(k, v, path, add) that returns no error, the value
\* stored under k is v if k was absent and add(old, v) if it held old; an Upsert
\* whose add returns an error returns an error; and an Upsert that returns an
\* error leaves the store, the buckets of the path included, as it was.
C25_UpsertStoresTheSum ==
    /\ [](Ok(kv.last, "upsert") =>
             Get(store.leaf, kv.last.k) =
                 IF kv.last.got = NilValue THEN kv.last.v
                 ELSE Add(kv.last.add, kv.last.got, kv.last.v))
    /\ []((/\ kv.last.op = "upsert"
           /\ kv.last.got # NilValue
           /\ Add(kv.last.add, kv.last.got, kv.last.v) = AddError) =>
              kv.last.err # "nil")
    /\ [][(kv'.last.op = "upsert" /\ kv'.last.err # "nil") => store' = store]_vars

\* The caller's path is tracked and is neither a []string nor a [][]byte.
BadPath(c) == c.path # NoPath /\ c.path.type \notin {"[]string", "[][]byte"}

\* What resolveBucketPath made of the tracked path of caller c agrees with the
\* path: it resolves exactly if it is a []string or a [][]byte, and then to the
\* bytes of its segments, one for one and in their order.
ResolvedAsGiven(c) ==
    LET p == c.path
        r == ResolveBucketPath(p)
    IN  p # NoPath =>
          /\ c.pathOK = r.ok
          /\ r.ok <=> p.type \in {"[]string", "[][]byte"}
          /\ r.ok =>
               /\ c.n = Len(p.segs)
               /\ Len(r.resolved) = Len(p.segs)
               /\ \A i \in DOMAIN p.segs :
                    r.resolved[i] =
                        IF p.type = "[]string" THEN p.segs[i].str ELSE p.segs[i]

\* C26: a path resolves exactly if it is a []string or a [][]byte, to the same
\* segments in the same order as byte strings; with a path of any other type,
\* or nil, every DB operation returns the path error, and neither the store nor
\* the output queue is changed by it.
C26_OnlyStringAndByteSlicePaths ==
    /\ [](ResolvedAsGiven(kv) /\ ResolvedAsGiven(prod))
    /\ [](BadPath(kv) /\ kv.last.op # "none" =>
             kv.last.err = "path" /\ kv.last.got = NilValue)
    /\ [](BadPath(prod) /\ prod.pc \notin {"off", "call"} =>
             prod.pc = "done" /\ prod.ret = "path" /\ prod.pushed = <<>>)
    /\ [](BadPath(kv) \/ BadPath(prod) => fault = "none")
    /\ [][BadPath(kv) \/ BadPath(prod) =>
             store' = store /\ (prod' # prod => ch' = ch)]_vars

\* An Insert after a GetValue, both with a path of an unsupported type.
C26_Witness ==
    /\ BadPath(kv) /\ kv.path.type = "[]int"
    /\ kv.prev.op = "get" /\ kv.last.op = "insert"
    /\ store.root /\ DOMAIN store.leaf # {}

\* A producer that was given two segments as strings and has sent an entry.
C26_WitnessResolved ==
    /\ prod.path.type = "[]string" /\ Len(prod.path.segs) = 2
    /\ prod.path.segs[1] # prod.path.segs[2]
    /\ prod.pc = "done" /\ prod.pushed # <<>>

\* A producer that was given nil as its path has returned.
C26_WitnessNil == prod.path.type = "nil" /\ prod.pc = "done"

\* C28: when Capture or CaptureBytes waits to receive, and after it has
\* returned for whatever reason, it does not hold the mutex it was given.
C28_MutexOnlyAroundAppend ==
    cpt.pc \in {"recv", "done"} => cpt.mut # "locked"

\* The values of the records s in the element type of the destination.
Decoded(s) == [i \in DOMAIN s |-> <<cpt.slice, s[i]>>]

\* C29: a record that CaptureBytes cannot decode is the last it receives: the
\* call has returned the decoding error, it takes no further step, and the
\* collection is its initial contents followed by the decoded values of the
\* records received before that one.
C29_DecodingFailureIsFatal ==
    /\ [](cpt.bytes /\ cpt.slice \in {"number", "float64"} =>
            \A i \in DOMAIN cpt.rcvd :
               cpt.rcvd[i] \notin cpt.parses =>
                  i = Len(cpt.rcvd) /\ cpt.pc = "done" /\ cpt.ret = "parse")
    /\ [](cpt.ret = "parse" => cpt.into = cpt.first \o Decoded(Front(cpt.rcvd)))
    /\ [][cpt.ret = "parse" => cpt' = cpt]_vars

\* C30: the producer's snapshot is open from the first entry of the scan to its
\* return, so every push happens in it; a producer that has returned or
\* panicked holds no snapshot; and a push that times out ends the scan: the
\* producer returns the timeout error with the entry unsent, the snapshot
\* released, and pushes nothing afterwards.
C30_SnapshotSpansTheScan ==
    /\ [](prod.pc \in {"scan", "send"} => prod.tx)
    /\ [](prod.pc \in {"done", "panicked"} => ~prod.tx)
    /\ [](prod.pc = "done" /\ prod.ret = "timeout" => prod.cur # <<>>)
    /\ [][prod'.pushed # prod.pushed => prod.tx /\ prod'.tx]_vars
    /\ [][(prod.pc = "send" /\ prod'.pc = "done") =>
             prod.timer = 0 /\ prod'.ret = "timeout" /\ prod'.pushed = prod.pushed]_vars
    /\ [][prod.pc = "done" => prod' = prod]_vars

\* Two entries to send to a queue that takes one: the first was pushed, the push
\* of the second timed out.
C30_Witness ==
    /\ prod.pc = "done" /\ prod.ret = "timeout"
    /\ Len(prod.pushed) = 1 /\ Len(prod.cur) = 1

\* A scan to the end of the collection, every entry pushed.
C30_WitnessWholeScan ==
    /\ prod.pc = "done" /\ prod.ret = "nil"
    /\ Len(prod.pushed) = MaxKey

\* The four stages of the pipeline have returned.
Finished ==
    prod.pc = "done" /\ de.pc = "done" /\ flt.pc = "done" /\ cpt.pc = "done"

\* No timeout fired, no task failed and the token was not cancelled.
Undisturbed ==
    /\ ~cancelled
    /\ "timeout" \notin {prod.ret, de.ret, flt.ret, cpt.ret}
    /\ \A i \in DOMAIN tasks : tasks[i].err \in {"none", "nil"}

\* The accounts the pipeline is to capture, in the order of the cursor.
Closed ==
    SelectSeq(Ascending(DOMAIN store.leaf),
              LAMBDA k : /\ store.leaf[k] = NilValue
                         /\ <<k>> \in de.emits /\ <<k>> \in flt.allow)

\* C27: the readme's pipeline comes to its end.  As long as no timeout has
\* fired, no task has failed and the token is not cancelled, no stage panics and
\* the four stages come to return; when they have, each has returned nil and
\* the captured slice holds exactly the buckets that the task sent on and the
\* filter allowed.
C27_PipelineTerminates ==
    /\ [](Undisturbed => fault = "none")
    /\ [](Finished /\ Undisturbed =>
            /\ prod.ret = "nil" /\ de.ret = "nil" /\ flt.ret = "nil" /\ cpt.ret = "nil"
            /\ SameMultiset(cpt.into, Captured([i \in DOMAIN Closed |-> <<Closed[i]>>])))
    /\ <>(Finished \/ ~Undisturbed)

\* The timer is running: it was started and has neither been stopped nor fired.
Armed(t) == t > 0

\* C31 (as claimed): no timer a call started is left running: not when Send,
\* Capture, Filter, Convert or DoEach (or a task's Send) has returned, not when
\* DoEach goes on to wait for its tasks, and not at the head of an iteration of
\* goroutineSpawn, where the next timer is started: the timer of the receive
\* or of the iteration before has been stopped or has fired.
C31_NoTimerLeftArmed ==
    /\ snd.pc = "done" => ~Armed(snd.timer)
    /\ cpt.pc = "done" => ~Armed(cpt.timer)
    /\ flt.pc = "done" => ~Armed(flt.timer)
    /\ cnv.pc = "done" => ~Armed(cnv.timer)
    /\ de.pc \in {"done", "wait"} => ~Armed(de.timer)
    /\ \A i \in DOMAIN tasks : tasks[i].pc = "done" => ~Armed(tasks[i].timer)
    /\ de.pc = "spawn" => ~Armed(de.timer)

\* The calls that may write to the log, and where each stands: its position and
\* what it returned.
Writers ==
    {<<n, 0>> : n \in {"filter", "convert", "send", "doeach", "capture"}}
    \cup {<<"task", i>> : i \in DOMAIN tasks}

Standing(who) ==
    CASE who[1] = "filter" -> [pc |-> flt.pc, ret |-> flt.ret]
      [] who[1] = "convert" -> [pc |-> cnv.pc, ret |-> cnv.ret]
      [] who[1] = "send" -> [pc |-> snd.pc, ret |-> snd.ret]
      [] who[1] = "doeach" -> [pc |-> de.pc, ret |-> de.ret]
      [] who[1] = "capture" -> [pc |-> cpt.pc, ret |-> cpt.ret]
      [] OTHER -> [pc |-> tasks[who[2]].pc, ret |-> tasks[who[2]].err]

\* The lines the call has written to the log.
Written(who) == {i \in DOMAIN logger.lines : logger.lines[i].who = who}

ReturnedTimeout(who) == Standing(who).pc = "done" /\ Standing(who).ret = "timeout"

C32_WitnessContended == flt.pc = "write" /\ cpt.pc = "lock"

\* A call that returned on cancellation beside one that timed out and wrote.
C32_WitnessCancelled ==
    /\ cnv.pc = "done" /\ cnv.ret = "cancelled"
    /\ snd.pc = "done" /\ snd.ret = "timeout" /\ Len(logger.lines) = 1

\* s holds values of t in the order they have in t.
RECURSIVE IsSubsequence(_, _)
IsSubsequence(s, t) ==
    \/ s = <<>>
    \/ /\ t # <<>>
       /\ IF Head(s) = Head(t) THEN IsSubsequence(Tail(s), Tail(t))
          ELSE IsSubsequence(s, Tail(t))

\* The values reached out in another order than they were received in.
Reordered == ~IsSubsequence(de.emitted, de.rcvd)

\* C33: DoEach does not keep the order of its input on out.  What reaches out
\* are received values, none more often than it was received, and with tasks
\* that send their input on, a limit of 2 or more, or none (a limit below 1),
\* lets a later value overtake an earlier one (the witnesses); only a limit
\* of 1 keeps the order.
C33_OutputOrderNotKept ==
    /\ \A v \in Val : Occurrences(de.emitted, v) <= Occurrences(de.rcvd, v)
    /\ Reordered => de.workLimit # 1

\* Under a limit of 2 the values 1, 2 were received and the caller read 2, 1.
C33_Witness ==
    /\ de.workLimit = MaxLimit /\ de.emits = Val
    /\ de.rcvd = <<1, 2>> /\ de.emitted = <<2, 1>> /\ sink.got = <<2, 1>>

C33_WitnessNoLimit ==
    /\ de.workLimit = 0 /\ de.emits = Val
    /\ de.rcvd = <<1, 2>> /\ de.emitted = <<2, 1>> /\ sink.got = <<2, 1>>

\* The pairs of the collection at the caller's path: none if it does not exist.
Pairs(s) == IF s.root /\ s.depth = kv.n THEN s.leaf ELSE EmptyLeaf

\* The pairs of bkt whose value is not v.
Without(bkt, v) ==
    LET K == {k \in DOMAIN bkt : bkt[k] # v} IN [k \in K |-> bkt[k]]

\* C34: a DeleteValues(v, path) that returns no error has removed from the
\* collection at path every pair whose value is v and has left its other pairs
\* (and its child buckets) as they were; one that returns an error has removed
\* nothing: the collection holds the pairs it held.
C34_DeleteValuesRemovesMatches ==
    [][kv'.last.op = "deletevalues" =>
         IF kv'.last.err = "nil"
         THEN Pairs(store') = Without(Pairs(store), kv'.last.v)
         ELSE Pairs(store') = Pairs(store)]_vars

\* Key 1 was inserted with the value 1 beside key 2 with the value 2; a
\* DeleteValues(1) has removed the first and left the second.
C34_Witness ==
    /\ Ok(kv.prev, "insert") /\ kv.prev.k = 1 /\ kv.prev.v = 1
    /\ Ok(kv.last, "deletevalues") /\ kv.last.v = 1
    /\ DOMAIN store.leaf = {2} /\ store.leaf[2] = 2

\* A DeleteValues("") over a collection with a child bucket fails and leaves
\* the entry just inserted.
C34_WitnessRefused ==
    /\ Ok(kv.prev, "insert") /\ kv.prev.k = 1
    /\ kv.last.op = "deletevalues" /\ kv.last.v = EmptyValue /\ kv.last.err = "delete"
    /\ DOMAIN store.leaf = {1, 2} /\ store.leaf[1] = kv.prev.v

\* add applied once to what the call found under its key (its value if the key
\* was absent).
AppliedOnce(c, found) == IF found = NilValue THEN c.v ELSE Add(c.add, found, c.v)

\* C35 (as claimed): two Upserts of concurrent callers on one key, both
\* returning no error, in whichever order the store ran them and whether or
\* not a batch ran their functions again: the value stored is add folded over
\* what the first found and the two values, each applied exactly once.
C35_ConcurrentUpsertsFold ==
    (/\ Ok(kv.prev, "upsert") /\ Ok(kv.last, "upsert")
     /\ kv.prev.k = kv.last.k) =>
        Get(store.leaf, kv.last.k) =
            AppliedOnce(kv.last, AppliedOnce(kv.prev, kv.prev.got))

\* No entry of the collection at the caller's path matches the call: the key
\* of a Delete is not in it, no value in it equals that of a DeleteValues (and
\* nothing matches where the path, or the root, does not exist).
NoMatch(c, s) ==
    IF c.op = "delete" THEN c.k \notin DOMAIN Pairs(s)
    ELSE \A k \in DOMAIN Pairs(s) : ~Equal(Pairs(s)[k], c.v)

\* C36 (as claimed): a Delete or DeleteValues that finds nothing to remove
\* leaves the store as it was, its buckets included: none is created along
\* the path.
C36_DeleteCreatesNothing ==
    [][(kv'.last.op \in {"delete", "deletevalues"} /\ NoMatch(kv'.last, store)) =>
          store' = store]_vars

\* The caller's path resolves to no segment and the database has no root
\* bucket.
EmptyPathNoRoot(c) == c.pathOK /\ ~c.dbNil /\ c.n = 0 /\ ~store.root

\* C37 (as claimed): a read with an empty path on a store without root never
\* panics: a producer returns, having pushed nothing, and a keyed read
\* returns, with the Access error if mustExist is true and with no error and
\* nothing found if it is false.
C37_EmptyPathNeverPanics ==
    /\ fault # "index out of range"
    /\ (EmptyPathNoRoot(prod) /\ prod.pc \notin {"off", "call"}) =>
          /\ prod.pc = "done" /\ prod.pushed = <<>>
          /\ prod.ret = (IF prod.mustExist THEN "access" ELSE "nil")
    /\ (kv.on /\ EmptyPathNoRoot(kv) /\ kv.last.op # "none") =>
          /\ kv.last.err = (IF kv.last.m THEN "access" ELSE "nil")
          /\ kv.last.err = "nil" => kv.last.got \in {NilValue, EmptyKey}

\* C38: the queue of KeysAt, EntriesAt and BucketsAt is closed only once the
\* producer's snapshot is released: the step that closes it leaves no snapshot
\* open, the snapshot is not open while the queue is closed, and a consumer
\* that has seen the closure finds the producer returned, without a snapshot.
C38_ClosedAfterSnapshotReleased ==
    /\ [][(DefersClose(prod.variant) /\ prod.out # NoChan
             /\ ch'[prod.out].closed /\ ~ch[prod.out].closed) => ~prod'.tx]_vars
    /\ [](DefersClose(prod.variant) /\ prod.out # NoChan /\ ch[prod.out].closed =>
             ~prod.tx)
    /\ [](DefersClose(prod.variant) /\ sink.sawClosed /\ fault = "none" =>
             prod.pc = "done" /\ ~prod.tx)

\* The consumer has received every entry of a scan and then seen the closure.
C38_Witness ==
    /\ DefersClose(prod.variant) /\ sink.sawClosed
    /\ prod.ret = "nil" /\ Len(prod.pushed) = MaxKey /\ sink.got = prod.pushed

\* The consumer has seen the closure that follows a push that timed out.
C38_WitnessTimeout ==
    /\ DefersClose(prod.variant) /\ sink.sawClosed
    /\ prod.ret = "timeout" /\ prod.pushed # <<>>

\* The values of s that the predicate allows, in order.
Accepted(s) == SelectSeq(s, LAMBDA v : v \in flt.allow)

\* The values Filter holds: received, allowed and not sent.
InHand == Len(Accepted(flt.rcvd)) - Len(flt.sent)

\* The caller's input: what Filter has received, what waits in its input queue
\* and what the caller has still to send.
Input == flt.rcvd \o ch[flt.in].buf \o feeder.todo

\* C39: Filter conserves items.  What it has sent is what it has received and
\* allowed, in order, but for at most one value in hand: the one it is sending.
\* A returned Filter holds a value only if its send timed out, and then the
\* call returned the Timeout error; no value ever goes back to the input queue.
C39_FilterConserves ==
    /\ [](/\ InHand \in 0..1
          /\ flt.sent = SubSeq(Accepted(flt.rcvd), 1, Len(flt.sent)))
    /\ [](InHand = 1 =>
            \/ flt.pc = "send" /\ flt.v = flt.rcvd[Len(flt.rcvd)]
            \/ flt.pc = "done" /\ flt.ret = "timeout")
    /\ [](flt.pc = "recv" => InHand = 0)
    /\ [][flt.in # NoChan => Input' = Input]_vars

\* A send that timed out after an earlier value was sent or rejected: the value
\* was received and allowed, and the input queue is empty.
C39_Witness ==
    /\ flt.pc = "done" /\ flt.ret = "timeout" /\ InHand = 1
    /\ Len(flt.rcvd) = MaxLen
    /\ ch[flt.in].buf = <<>> /\ feeder.todo = <<>>

\* Every value received was sent or rejected, and Filter returned nil.
C39_WitnessAllThrough ==
    /\ flt.pc = "done" /\ flt.ret = "nil" /\ InHand = 0
    /\ flt.sent # <<>> /\ Len(flt.rcvd) > Len(flt.sent)

\* The stage has returned an error.
Aborted(s) == s.pc = "done" /\ s.ret # "nil"

\* The stage leaves its receive on finding queue c closed and drained, with its
\* timer running and the context live.
LeavesOnClosure(s, t, c) ==
    /\ s.pc = "recv" /\ t.pc \in {"done", "wait"}
    /\ ch[c].closed /\ ch[c].buf = <<>>
    /\ ~cancelled /\ s.timer > 0

\* s is the head of t.
StartsWith(t, s) == Len(s) <= Len(t) /\ s = SubSeq(t, 1, Len(s))

\* C40 (as claimed): in the readme's pipeline a stage that aborts does no more
\* than close its own queue.  Nothing panics on a queue a stage has closed; the
\* step that aborts a stage leaves the other queues and what is queued on its
\* own as they were; a stage that finds its input closed returns nil (DoEach
\* goes on to wait for its tasks); and a Capture that has returned nil holds
\* the head of what the undisturbed pipeline captures.
C40_FailureStaysLocal ==
    /\ [](fault \notin {"send on closed channel", "close of closed channel"})
    /\ [][/\ (~Aborted(prod) /\ Aborted(prod')) =>
                \A c \in Chans : ch'[c].buf = ch[c].buf
                                   /\ (c # prod.out => ch'[c] = ch[c])
          /\ (~Aborted(de) /\ Aborted(de')) =>
                \A c \in Chans : ch'[c].buf = ch[c].buf
                                   /\ (c # de.out => ch'[c] = ch[c])
          /\ (~Aborted(flt) /\ Aborted(flt')) =>
                \A c \in Chans : ch'[c].buf = ch[c].buf
                                   /\ (c # flt.out => ch'[c] = ch[c])]_vars
    /\ [][/\ LeavesOnClosure(de, de', de.in) => de'.pc = "wait"
          /\ LeavesOnClosure(flt, flt', flt.in) => flt'.ret = "nil"
          /\ LeavesOnClosure(cpt, cpt', cpt.buffer) => cpt'.ret = "nil"]_vars
    /\ [](cpt.pc = "done" /\ cpt.ret = "nil" =>
            StartsWith(Captured([i \in DOMAIN Closed |-> <<Closed[i]>>]), cpt.into))

=========================================================================
